---------------------------- MODULE Spec2Model ----------------------------
(***************************************************************************)
(* A model of the prmxctrl code generator: the schema parser, the type     *)
(* mapper, the model generator and the endpoint generator.                 *)
(*                                                                         *)
(* Text that the code takes apart (paths, segments, file names, parameter  *)
(* names, enum members) is a sequence of one-character strings; text that  *)
(* the code only builds by formatting (class names, model names, type      *)
(* expressions) is a TLA+ string built with \o, as an f-string builds it.  *)
(* Python's None is the empty tuple, a present value v is <<v>>.           *)
(***************************************************************************)
EXTENDS Naturals, Sequences, FiniteSets, TLC

VARIABLES
    pc,            \* position of the pipeline (SDKGenerator.generate)
    raw_schema,    \* the raw schema document handed to the parser
    endpoints,     \* the parsed endpoint tree (SchemaParser.parse)
    model_gen,     \* ModelGenerator object: model_counter, generated_models
    endpoint_gen,  \* EndpointGenerator object: its five attributes
    model_out,     \* what _generate_models returned: models and name map
    cursor,        \* index of the next top-level endpoint of pass 2
    run,           \* number of the current pipeline run
    started,       \* how the current run got its generators
    prev,          \* the outputs of the previous run
    param_spec,    \* TypeMapper: the parameter specification to map
    mapped,        \* TypeMapper: what map_parameter_type returned
    fp_endpoint,   \* file paths: the endpoint whose file path is asked
    fp_result,     \* file paths: what _get_file_path returned
    field_name,    \* field names: the parameter name to sanitise
    sanitized,     \* field names: what _sanitize_field_name returned
    edge_cases,    \* analyzer: what _detect_edge_cases returned
    ri_paths,      \* relative import: the from-file and the to-file
    ri_result,     \* relative import: what _calculate_relative_import returned
    root_endpoints \* client generator: what _collect_root_endpoints returned

vars == <<pc, raw_schema, endpoints, model_gen, endpoint_gen, model_out,
          cursor, run, started, prev, param_spec, mapped, fp_endpoint,
          fp_result, field_name, sanitized, edge_cases, ri_paths, ri_result,
          root_endpoints>>

pipeline_vars == <<raw_schema, endpoints, model_gen, endpoint_gen, model_out,
                   cursor, run, started, prev>>
mapper_vars == <<param_spec, mapped>>
path_vars == <<fp_endpoint, fp_result>>
name_vars == <<field_name, sanitized>>
analysis_vars == <<edge_cases>>
import_vars == <<ri_paths, ri_result>>
client_vars == <<root_endpoints>>

None == <<>>
Some(v) == <<v>>
IsNone(o) == Len(o) = 0
Val(o) == o[1]

\* a local variable of the code: body sees value under the name it binds
Bind(value, body(_)) == body(value)

(***************************************************************************)
(* Characters and Python's str methods.                                    *)
(***************************************************************************)
Lowers == <<"a","b","c","d","e","f","g","h","i","j","k","l","m",
            "n","o","p","q","r","s","t","u","v","w","x","y","z">>
Uppers == <<"A","B","C","D","E","F","G","H","I","J","K","L","M",
            "N","O","P","Q","R","S","T","U","V","W","X","Y","Z">>
Digits == <<"0","1","2","3","4","5","6","7","8","9">>

\* the characters of the model in code point order (str comparison)
CodeOrder == <<" ", "-", "/">> \o Digits \o Uppers \o <<"_">> \o Lowers
             \o <<"{", "}">>

Range(f) == {f[i] : i \in DOMAIN f}
IndexOf(c, seq) == IF c \in Range(seq)
                   THEN CHOOSE i \in DOMAIN seq : seq[i] = c
                   ELSE 0
Ord(c) == IndexOf(c, CodeOrder)

IsLower(c) == c \in Range(Lowers)
IsUpper(c) == c \in Range(Uppers)
IsAlpha(c) == IsLower(c) \/ IsUpper(c)
IsDigit(c) == c \in Range(Digits)
\* the regular expression class \w
IsWordChar(c) == IsAlpha(c) \/ IsDigit(c) \/ c = "_"
ToUpper(c) == IF IsLower(c) THEN Uppers[IndexOf(c, Lowers)] ELSE c
ToLower(c) == IF IsUpper(c) THEN Lowers[IndexOf(c, Uppers)] ELSE c

\* str(s) of a character sequence, as an f-string embeds it
RECURSIVE Str(_)
Str(s) == IF s = <<>> THEN "" ELSE Head(s) \o Str(Tail(s))

\* str(n) of a natural number
RECURSIVE IntToStr(_)
IntToStr(n) == IF n < 10 THEN Digits[n + 1]
               ELSE IntToStr(n \div 10) \o Digits[(n % 10) + 1]

\* s.replace(a, b) for single characters a, b
ReplaceChar(s, a, b) == [i \in DOMAIN s |-> IF s[i] = a THEN b ELSE s[i]]

\* s.replace(a, "") for a single character a
RECURSIVE RemoveChar(_, _)
RemoveChar(s, a) ==
    IF s = <<>> THEN <<>>
    ELSE IF Head(s) = a THEN RemoveChar(Tail(s), a)
    ELSE <<Head(s)>> \o RemoveChar(Tail(s), a)

\* s.title(): a letter after a letter is lowered, any other letter is raised
Title(s) == [i \in DOMAIN s |->
               IF i > 1 /\ IsAlpha(s[i - 1]) THEN ToLower(s[i]) ELSE ToUpper(s[i])]

\* s.capitalize(): the first character raised, the others lowered
Capitalize(s) == [i \in DOMAIN s |-> IF i = 1 THEN ToUpper(s[i]) ELSE ToLower(s[i])]

StartsWith(s, p) == Len(s) >= Len(p) /\ SubSeq(s, 1, Len(p)) = p
EndsWith(s, p) == Len(s) >= Len(p) /\ SubSeq(s, Len(s) - Len(p) + 1, Len(s)) = p
Contains(s, c) == c \in Range(s)

\* s.strip(chars) for a set of characters
RECURSIVE LStrip(_, _)
LStrip(s, chars) == IF s # <<>> /\ Head(s) \in chars THEN LStrip(Tail(s), chars) ELSE s
RECURSIVE RStrip(_, _)
RStrip(s, chars) == IF s # <<>> /\ s[Len(s)] \in chars
                    THEN RStrip(SubSeq(s, 1, Len(s) - 1), chars) ELSE s
Strip(s, chars) == RStrip(LStrip(s, chars), chars)

\* s.split(sep) for a single character sep
RECURSIVE SplitFrom(_, _, _)
SplitFrom(s, sep, cur) ==
    IF s = <<>> THEN <<cur>>
    ELSE IF Head(s) = sep THEN <<cur>> \o SplitFrom(Tail(s), sep, <<>>)
    ELSE SplitFrom(Tail(s), sep, Append(cur, Head(s)))
Split(s, sep) == SplitFrom(s, sep, <<>>)

\* sep.join(parts) for a character sequence sep
RECURSIVE Join(_, _)
Join(parts, sep) ==
    IF parts = <<>> THEN <<>>
    ELSE IF Len(parts) = 1 THEN parts[1]
    ELSE parts[1] \o sep \o Join(Tail(parts), sep)

\* "".join(parts)
Concat(parts) == Join(parts, <<>>)

\* a < b for two strings, by code points
RECURSIVE StrLess(_, _)
StrLess(a, b) ==
    IF b = <<>> THEN FALSE
    ELSE IF a = <<>> THEN TRUE
    ELSE IF Ord(Head(a)) # Ord(Head(b)) THEN Ord(Head(a)) < Ord(Head(b))
    ELSE StrLess(Tail(a), Tail(b))

\* sorted(S) for a set of strings
RECURSIVE Sorted(_)
Sorted(S) ==
    IF S = {} THEN <<>>
    ELSE LET m == CHOOSE x \in S : \A y \in S \ {x} : StrLess(x, y)
         IN <<m>> \o Sorted(S \ {m})

\* the reserved words the generators test identifiers against
PythonKeywords ==
    {"False", "None", "True", "and", "as", "assert", "async", "await",
     "break", "class", "continue", "def", "del", "elif", "else", "except",
     "finally", "for", "from", "global", "if", "import", "in", "is",
     "lambda", "nonlocal", "not", "or", "pass", "raise", "return", "try",
     "while", "with", "yield"}

IsKeyword(s) == Str(s) \in PythonKeywords

(***************************************************************************)
(* Values of the schema document.  A JSON string is [str |-> characters],  *)
(* a JSON number is [int |-> n]; a float made by float(n) is [float |-> n].*)
(* A dict is a record; d.get(k) is Get(d, k), None when k is absent.       *)
(***************************************************************************)
StrV(s) == [str |-> s]
IntV(n) == [int |-> n]
FloatV(n) == [float |-> n]
IsStrV(v) == DOMAIN v = {"str"}
IsIntV(v) == DOMAIN v = {"int"}

Get(d, k) == IF k \in DOMAIN d THEN d[k] ELSE None
GetOr(d, k, dflt) == IF k \in DOMAIN d THEN d[k] ELSE dflt
\* d[k] = v on a dict d
Put(d, k, v) == [x \in DOMAIN d \cup {k} |-> IF x = k THEN v ELSE d[x]]
EmptyDict == [x \in {} |-> None]

(***************************************************************************)
(* TypeMapper (type_mapper.py).  A mapping returns                         *)
(* [type |-> expression, kwargs |-> dict] or, when Python raises,          *)
(* [error |-> exception name].                                             *)
(***************************************************************************)
FORMAT_MAPPINGS ==
    [f \in {"pve-node", "pve-node-list", "pve-vmid", "pve-vmid-list",
            "pve-storage-id", "pve-storage-id-list", "pve-replication-job-id",
            "pve-replication-job-id-list", "pve-configid-list", "pve-timezone",
            "pve-calendar-event", "pve-iface", "ipv4", "ipv6", "ip", "cidr",
            "mac-addr", "pve-userid", "pve-realm", "email", "uri", "uuid",
            "hostname"} |->
       CASE f = "pve-node" -> "ProxmoxNode"
         [] f = "pve-node-list" -> "list[ProxmoxNode]"
         [] f = "pve-vmid" -> "ProxmoxVMID"
         [] f = "pve-vmid-list" -> "list[ProxmoxVMID]"
         [] f \in {"pve-storage-id-list", "pve-replication-job-id-list"} -> "list[str]"
         [] OTHER -> "str"]

\* len(enum_values) <= 10 selects the literal union
LiteralEnumLimit == 10

IsError(r) == "error" \in DOMAIN r
TypeError == [error |-> "TypeError"]

\* int(v) / float(v) of _build_field_kwargs, the raw value on ValueError
AllDigits(s) == s # <<>> /\ \A i \in DOMAIN s : IsDigit(s[i])
RECURSIVE ParseNat(_)
ParseNat(s) == IF s = <<>> THEN 0
               ELSE ParseNat(SubSeq(s, 1, Len(s) - 1)) * 10
                    + (IndexOf(s[Len(s)], Digits) - 1)
ToNumber(v, param_type) ==
    LET n == IF IsIntV(v) THEN Some(v.int)
             ELSE IF IsStrV(v) /\ AllDigits(v.str) THEN Some(ParseNat(v.str))
             ELSE None
    IN IF IsNone(n) THEN v
       ELSE IF param_type = "integer" THEN IntV(Val(n)) ELSE FloatV(Val(n))

\* str(v) of an enum member or default inside the f-string of a literal
ValueStr(v) == IF IsStrV(v) THEN Str(v.str) ELSE IntToStr(v.int)

\* ", ".join(literals)
RECURSIVE JoinText(_, _)
JoinText(parts, sep) ==
    IF parts = <<>> THEN ""
    ELSE IF Len(parts) = 1 THEN parts[1]
    ELSE parts[1] \o sep \o JoinText(Tail(parts), sep)

build_field_kwargs(spec, default_value, param_type) ==
    LET has(k) == k \in DOMAIN spec /\ ~IsNone(spec[k])
        k1 == IF "description" \in DOMAIN spec
              THEN Put(EmptyDict, "description", spec["description"])
              ELSE EmptyDict
        k2 == IF ~IsNone(default_value) THEN Put(k1, "default", Val(default_value))
              ELSE k1
        numeric == param_type \in {"integer", "number"}
        num(d, key, src) == IF numeric /\ has(src)
                            THEN Put(d, key, ToNumber(Val(spec[src]), param_type))
                            ELSE d
        k3 == num(k2, "ge", "minimum")
        k4 == num(k3, "le", "maximum")
        k5 == num(k4, "gt", "exclusiveMinimum")
        k6 == num(k5, "lt", "exclusiveMaximum")
        len(d, key, src) == IF param_type = "string" /\ has(src)
                            THEN Put(d, key, ToNumber(Val(spec[src]), "integer"))
                            ELSE d
        k7 == len(k6, "min_length", "minLength")
    IN len(k7, "max_length", "maxLength")

adjust_type_for_default(python_type, default_value) == python_type

\* the text of the type, or TypeError when sorted() meets a str and an int
map_string_type(spec, default_value) ==
    LET param_format == Get(spec, "format")
        enum == Get(spec, "enum")
    IN IF ~IsNone(enum)
       THEN LET enum_values == Val(enum)
            IN IF Len(enum_values) <= LiteralEnumLimit
               THEN LET members == {StrV(enum_values[i]) : i \in DOMAIN enum_values}
                        all_values ==
                            IF ~IsNone(default_value) /\ Val(default_value) \notin members
                            THEN members \cup {Val(default_value)}
                            ELSE members
                        strs == {v \in all_values : IsStrV(v)}
                        ints == all_values \ strs
                        ordered == Sorted({v.str : v \in strs})
                        literals == [i \in DOMAIN ordered |->
                                        "\"" \o Str(ordered[i]) \o "\""]
                    IN IF strs # {} /\ ints # {} THEN TypeError
                       ELSE IF ints # {}
                       THEN [type |-> "Literal[\""
                                      \o IntToStr((CHOOSE v \in ints : TRUE).int)
                                      \o "\"]"]
                       ELSE [type |-> "Literal[" \o JoinText(literals, ", ") \o "]"]
               ELSE [type |-> "str"]
       ELSE IF ~IsNone(param_format) /\ IsStrV(Val(param_format))
       THEN LET f == Str(Val(param_format).str)
            IN IF f \in DOMAIN FORMAT_MAPPINGS THEN [type |-> FORMAT_MAPPINGS[f]]
               ELSE IF f = "password" THEN [type |-> "Password"]
               ELSE IF f = "token" THEN [type |-> "AuthToken"]
               ELSE [type |-> "str"]
       ELSE [type |-> "str"]

map_primitive_type(spec, is_optional, default_value) ==
    LET param_type == GetOr(spec, "type", "string")
        param_format == Get(spec, "format")
        base == IF param_type = "string" THEN map_string_type(spec, default_value)
                ELSE IF param_type = "integer" THEN [type |-> "int | str"]
                ELSE IF param_type = "number" THEN [type |-> "float | str"]
                ELSE IF param_type = "boolean" THEN [type |-> "bool | int | str"]
                ELSE IF param_type = "null" THEN [type |-> "None"]
                ELSE [type |-> "str"]
    IN IF IsError(base) THEN base
       ELSE LET formatted ==
                    IF ~IsNone(param_format) /\ IsStrV(Val(param_format))
                       /\ Str(Val(param_format).str) \in DOMAIN FORMAT_MAPPINGS
                    THEN FORMAT_MAPPINGS[Str(Val(param_format).str)]
                    ELSE base.type
                adjusted == adjust_type_for_default(formatted, default_value)
                python_type == IF is_optional THEN adjusted \o " | None" ELSE adjusted
            IN [type |-> python_type,
                kwargs |-> build_field_kwargs(spec, default_value, param_type)]

\* mutant: the object branch forgets the optional wrapper
map_object_type_unwrapped(spec, is_optional, default_value) ==
    [type |-> "dict[str, Any]",
     kwargs |-> build_field_kwargs(spec, default_value, "object")]

map_object_type(spec, is_optional, default_value) ==
    LET python_type == IF is_optional THEN "dict[str, Any] | None"
                       ELSE "dict[str, Any]"
    IN [type |-> python_type,
        kwargs |-> build_field_kwargs(spec, default_value, "object")]

RECURSIVE map_parameter_type(_)
map_array_type(spec, is_optional, default_value) ==
    LET items_spec == Get(spec, "items")
        item == IF IsNone(items_spec) \/ DOMAIN Val(items_spec) = {}
                THEN [type |-> "list[Any]"]
                ELSE LET r == map_parameter_type(Val(items_spec))
                     IN IF IsError(r) THEN r
                        ELSE [type |-> "list[" \o r.type \o "]"]
    IN IF IsError(item) THEN item
       ELSE [type |-> IF is_optional THEN item.type \o " | None" ELSE item.type,
             kwargs |-> build_field_kwargs(spec, default_value, "array")]

map_parameter_type(spec) ==
    LET param_type == GetOr(spec, "type", "string")
        is_optional == GetOr(spec, "optional", FALSE)
        default_value == Get(spec, "default")
    IN IF param_type = "array" THEN map_array_type(spec, is_optional, default_value)
       ELSE IF param_type = "object"
       THEN map_object_type(spec, is_optional, default_value)
       ELSE map_primitive_type(spec, is_optional, default_value)

(***************************************************************************)
(* SchemaParser (parse_schema.py).  A raw node is a record with the keys   *)
(* path, text, leaf and, when present, info and children; info and the     *)
(* properties of a method are sequences of <<key, value>> pairs in the     *)
(* order of the document, as a Python dict keeps them.                     *)
(***************************************************************************)
\* re.findall(r"\{(\w+)\}", path)
RECURSIVE WordRun(_)
WordRun(s) == IF s # <<>> /\ IsWordChar(Head(s)) THEN 1 + WordRun(Tail(s)) ELSE 0
RECURSIVE FindPathParams(_)
FindPathParams(s) ==
    IF s = <<>> THEN <<>>
    ELSE IF Head(s) = "{"
    THEN LET rest == Tail(s)
             n == WordRun(rest)
         IN IF n >= 1 /\ Len(rest) > n /\ rest[n + 1] = "}"
            THEN <<SubSeq(rest, 1, n)>>
                 \o FindPathParams(SubSeq(rest, n + 2, Len(rest)))
            ELSE FindPathParams(rest)
    ELSE FindPathParams(Tail(s))

\* a present raw value as an optional, None for an absent key
Opt(d, k) == IF k \in DOMAIN d THEN Some(d[k]) ELSE None

parse_parameter(name, prop) ==
    [name |-> name,
     type |-> GetOr(prop, "type", "string"),
     description |-> Opt(prop, "description"),
     optional |-> GetOr(prop, "optional", 0) = 1,
     default |-> Opt(prop, "default"),
     format |-> Opt(prop, "format"),
     minimum |-> Opt(prop, "minimum"),
     maximum |-> Opt(prop, "maximum"),
     max_length |-> Opt(prop, "maxLength"),
     pattern |-> Opt(prop, "pattern"),
     enum |-> Opt(prop, "enum"),
     properties |-> Opt(prop, "properties")]

parse_response(response_info) ==
    [type |-> GetOr(response_info, "type", "object"),
     description |-> Opt(response_info, "description"),
     properties |-> Opt(response_info, "properties"),
     items |-> Opt(response_info, "items")]

parse_method(method_name, method_info) ==
    [method |-> method_name,
     name |-> GetOr(method_info, "name", <<>>),
     description |-> Opt(method_info, "description"),
     protected |-> GetOr(method_info, "protected", 0) = 1,
     parameters |->
         IF "parameters" \in DOMAIN method_info
            /\ "properties" \in DOMAIN method_info.parameters
         THEN LET props == method_info.parameters.properties
              IN [i \in DOMAIN props |-> parse_parameter(props[i][1], props[i][2])]
         ELSE <<>>,
     returns |-> IF "returns" \in DOMAIN method_info
                 THEN Some(parse_response(method_info.returns))
                 ELSE None]

\* node["path"] or node["text"] raises KeyError, here or in a descendant
RECURSIVE RaisesKeyError(_)
RaisesKeyError(node) ==
    \/ "path" \notin DOMAIN node
    \/ "text" \notin DOMAIN node
    \/ /\ "children" \in DOMAIN node
       /\ \E i \in DOMAIN node.children : RaisesKeyError(node.children[i])

RECURSIVE parse_node(_, _)
parse_node(node, parent_path) ==
    [path |-> node.path,
     text |-> node.text,
     leaf |-> GetOr(node, "leaf", 0) = 1,
     path_params |-> FindPathParams(node.path),
     methods |->
         IF "info" \in DOMAIN node
         THEN [i \in DOMAIN node.info |->
                 [key |-> node.info[i][1],
                  value |-> parse_method(node.info[i][1], node.info[i][2])]]
         ELSE <<>>,
     children |->
         IF "children" \in DOMAIN node
         THEN [i \in DOMAIN node.children |->
                 parse_node(node.children[i], node.path)]
         ELSE <<>>]

\* mutant: a top-level node that raises is skipped, the others are returned
parse_lenient(raw) ==
    [endpoints |->
       LET kept == SelectSeq(raw, LAMBDA node : ~RaisesKeyError(node))
       IN [i \in DOMAIN kept |-> parse_node(kept[i], <<>>)]]

\* SchemaParser.parse: the endpoint list, or the KeyError it raises
parse(raw) ==
    IF \E i \in DOMAIN raw : RaisesKeyError(raw[i])
    THEN [error |-> "KeyError"]
    ELSE [endpoints |-> [i \in DOMAIN raw |-> parse_node(raw[i], <<>>)]]

(***************************************************************************)
(* ModelGenerator (model_generator.py).  The object is the record          *)
(* [model_counter, generated_models]; an operation that changes it takes   *)
(* the object and returns the new one beside its result.                   *)
(***************************************************************************)
s_slash == <<"/">>
Upper(s) == [i \in DOMAIN s |-> ToUpper(s[i])]

\* defaultdict(int) and {} of ModelGenerator.__init__
NoModels ==
    [model_counter |-> [b \in {} |-> 0], generated_models |-> [n \in {} |-> None]]

\* mutant: the counters are attributes of the class, shared by its instances
NewModelGenerator_shared(previous) == previous

\* ModelGenerator.__init__: the attributes are made anew, whatever an earlier
\* instance (previous) has left behind
NewModelGenerator(previous) == NoModels

\* _generate_base_model_name, the same text in both generators
generate_base_model_name(endpoint, method_name, suffix) ==
    LET titled == Title(ReplaceChar(RemoveChar(RemoveChar(
                      ReplaceChar(endpoint.path, "/", "_"), "{"), "}"), "-", "_"))
        path == IF StartsWith(titled, <<"_">>) THEN Tail(titled) ELSE titled
    IN Str(path) \o Str(Upper(method_name)) \o suffix

\* mutant: the occurrence counter is appended to the first name as well
ensure_unique_name_numbered(gen, base_name) ==
    LET counter == IF base_name \in DOMAIN gen.model_counter
                   THEN gen.model_counter[base_name] ELSE 0
    IN [gen |-> [gen EXCEPT !.model_counter = Put(@, base_name, counter + 1)],
        name |-> base_name \o IntToStr(counter)]

\* mutant: the counter is kept and the base name is returned as it is
ensure_unique_name_unchecked(gen, base_name) ==
    LET counter == IF base_name \in DOMAIN gen.model_counter
                   THEN gen.model_counter[base_name] ELSE 0
    IN [gen |-> [gen EXCEPT !.model_counter = Put(@, base_name, counter + 1)],
        name |-> base_name]

\* _ensure_unique_name: [gen, name]
ensure_unique_name(gen, base_name) ==
    LET counter == IF base_name \in DOMAIN gen.model_counter
                   THEN gen.model_counter[base_name] ELSE 0
    IN [gen |-> [gen EXCEPT !.model_counter = Put(@, base_name, counter + 1)],
        name |-> IF counter > 0 THEN base_name \o IntToStr(counter) ELSE base_name]

\* mutant: a reserved word is left as it is
sanitize_field_name_unsuffixed(name) ==
    LET replaced == [i \in DOMAIN name |->
                       IF IsWordChar(name[i]) THEN name[i] ELSE "_"]
    IN IF replaced # <<>> /\ IsDigit(replaced[1])
       THEN <<"f","i","e","l","d","_">> \o replaced ELSE replaced

\* re.sub(r"[^a-zA-Z0-9_]", "_", name), the digit prefix, the keyword suffix
sanitize_field_name(name) ==
    LET replaced == [i \in DOMAIN name |->
                       IF IsWordChar(name[i]) THEN name[i] ELSE "_"]
        prefixed == IF replaced # <<>> /\ IsDigit(replaced[1])
                    THEN <<"f","i","e","l","d","_">> \o replaced ELSE replaced
    IN IF IsKeyword(prefixed) THEN Append(prefixed, "_") ELSE prefixed

\* the dict that _generate_request_model hands to the type mapper
RequestParamSpec(param) ==
    [type |-> param.type, format |-> param.format, optional |-> param.optional,
     default |-> param.default, minimum |-> param.minimum,
     maximum |-> param.maximum, maxLength |-> param.max_length,
     pattern |-> param.pattern, enum |-> param.enum,
     properties |-> param.properties]

\* mutant: every field is given the alias, changed or not
RequestField_aliased(param) ==
    Bind(map_parameter_type(RequestParamSpec(param)), LAMBDA m :
      [name |-> sanitize_field_name(param.name),
       type_annotation |-> m.type,
       field_kwargs |-> Put(m.kwargs, "serialization_alias", param.name),
       description |-> param.description,
       original_name |-> Some(param.name)])

\* one ModelField of a request model
RequestField(param) ==
    Bind(map_parameter_type(RequestParamSpec(param)), LAMBDA m :
    Bind(sanitize_field_name(param.name), LAMBDA sanitized_name :
    Bind(IF ~IsNone(param.description) /\ Val(param.description) # ""
         THEN Put(m.kwargs, "description", Val(param.description))
         ELSE m.kwargs, LAMBDA described :
      [name |-> sanitized_name,
       type_annotation |-> m.type,
       field_kwargs |-> IF sanitized_name # param.name
                        THEN Put(described, "serialization_alias", param.name)
                        ELSE described,
       description |-> param.description,
       original_name |-> IF sanitized_name # param.name THEN Some(param.name)
                         ELSE None])))

\* self.generated_models[model.name] = model, and the model returned
Register(u, model) ==
    [gen |-> [u.gen EXCEPT !.generated_models = Put(@, u.name, model)],
     model |-> Some(model)]

\* _generate_request_model: [gen, model], model None without parameters
generate_request_model(gen, endpoint, method_name, method) ==
    IF method.parameters = <<>> THEN [gen |-> gen, model |-> None]
    ELSE Bind(ensure_unique_name(
                  gen, generate_base_model_name(endpoint, method_name, "Request")),
              LAMBDA u :
           Register(u, [name |-> u.name,
                        fields |-> [i \in DOMAIN method.parameters |->
                                      RequestField(method.parameters[i])],
                        docstring |-> "Request model for " \o Str(endpoint.path)
                                      \o " " \o Str(Upper(method_name))]))

\* a raw dict of the document as the type mapper reads it
RawParamSpec(raw) ==
    [k \in DOMAIN raw |->
       IF k = "type" THEN raw[k]
       ELSE IF k = "optional" THEN raw[k] = 1
       ELSE Some(raw[k])]

HasReturn(method) == ~IsNone(method.returns) /\ Val(method.returns).type # "null"

\* the annotation of the data field of a response model
ResponseAnnotation(returns) ==
    IF returns.type = "object" THEN "dict[str, Any]"
    ELSE IF returns.type = "array"
    THEN IF ~IsNone(returns.items) /\ DOMAIN Val(returns.items) # {}
         THEN "list[" \o map_parameter_type(RawParamSpec(Val(returns.items))).type
              \o "]"
         ELSE "list[Any]"
    ELSE map_parameter_type([type |-> returns.type]).type

\* _generate_response_model: [gen, model], model None without a return
generate_response_model(gen, endpoint, method_name, method) ==
    IF ~HasReturn(method) THEN [gen |-> gen, model |-> None]
    ELSE Bind(ensure_unique_name(
                  gen, generate_base_model_name(endpoint, method_name, "Response")),
              LAMBDA u :
           Register(u, [name |-> u.name,
                        fields |-> <<[name |-> <<"d","a","t","a">>,
                                      type_annotation |->
                                          ResponseAnnotation(Val(method.returns)),
                                      field_kwargs |->
                                          Put(EmptyDict, "description",
                                              "Response data for "
                                              \o Str(Upper(method_name))),
                                      description |-> None,
                                      original_name |-> None]>>,
                        docstring |-> "Response model for " \o Str(endpoint.path)
                                      \o " " \o Str(Upper(method_name))]))

\* the endpoints of a subtree in the order the recursions visit them
RECURSIVE PreOrder(_)
RECURSIVE PreOrderAll(_)
PreOrder(endpoint) == <<endpoint>> \o PreOrderAll(endpoint.children)
PreOrderAll(list) ==
    IF list = <<>> THEN <<>> ELSE PreOrder(Head(list)) \o PreOrderAll(Tail(list))

\* models.append(model) and model_name_map[base_name] = model.name
Record(acc, r, base_name) ==
    IF IsNone(r.model) THEN [acc EXCEPT !.gen = r.gen]
    ELSE [gen |-> r.gen,
          models |-> Append(acc.models, Val(r.model)),
          model_name_map |-> Put(acc.model_name_map, base_name, Val(r.model).name)]

\* the body of the loop over endpoint.methods.items(): request, then response
\* acc is [gen, models, model_name_map]
ModelsOfMethod(acc, endpoint, entry) ==
    Bind(Record(acc,
                generate_request_model(acc.gen, endpoint, entry.key, entry.value),
                generate_base_model_name(endpoint, entry.key, "Request")),
         LAMBDA a1 :
           Record(a1,
                  generate_response_model(a1.gen, endpoint, entry.key, entry.value),
                  generate_base_model_name(endpoint, entry.key, "Response")))

RECURSIVE ModelsOfMethods(_, _, _)
ModelsOfMethods(acc, endpoint, entries) ==
    IF entries = <<>> THEN acc
    ELSE ModelsOfMethods(ModelsOfMethod(acc, endpoint, Head(entries)), endpoint,
                         Tail(entries))

RECURSIVE ModelsOfEndpoints(_, _)
ModelsOfEndpoints(acc, list) ==
    IF list = <<>> THEN acc
    ELSE ModelsOfEndpoints(ModelsOfMethods(acc, Head(list), Head(list).methods),
                           Tail(list))

\* generate_models_file_with_names: [gen, models, model_name_map]
generate_models_file_with_names(gen, module_endpoints, module_name) ==
    ModelsOfEndpoints([gen |-> gen, models |-> <<>>, model_name_map |-> EmptyDict],
                      module_endpoints)

\* SDKGenerator._generate_models: the modules dict, keyed by endpoint.text
RECURSIVE GroupModules(_)
GroupModules(list) ==
    IF list = <<>> THEN <<>>
    ELSE LET init == GroupModules(SubSeq(list, 1, Len(list) - 1))
             e == list[Len(list)]
         IN IF \E i \in DOMAIN init : init[i].name = e.text
            THEN [i \in DOMAIN init |->
                    IF init[i].name = e.text
                    THEN [init[i] EXCEPT !.endpoints = @ \o PreOrder(e)]
                    ELSE init[i]]
            ELSE Append(init, [name |-> e.text, endpoints |-> PreOrder(e)])

\* model_name_map.update(module_model_names): the later value is kept
Update(d, e) ==
    [k \in DOMAIN d \cup DOMAIN e |-> IF k \in DOMAIN e THEN e[k] ELSE d[k]]

\* acc is [gen, files, model_name_map]
RECURSIVE GenerateModules(_, _)
GenerateModules(acc, modules) ==
    IF modules = <<>> THEN acc
    ELSE Bind(generate_models_file_with_names(acc.gen, Head(modules).endpoints,
                                              Head(modules).name),
              LAMBDA g :
           GenerateModules(
               [gen |-> g.gen,
                files |-> Append(acc.files,
                                 [filename |-> Head(modules).name \o <<".","p","y">>,
                                  models |-> g.models]),
                model_name_map |-> Update(acc.model_name_map, g.model_name_map)],
               Tail(modules)))

generate_models_sdk(gen, list) ==
    GenerateModules([gen |-> gen, files |-> <<>>, model_name_map |-> EmptyDict],
                    GroupModules(list))

(***************************************************************************)
(* EndpointGenerator (endpoint_generator.py).  The object is the record    *)
(* of its five attributes; endpoint_files and every other dict whose order *)
(* is read are sequences in insertion order.                               *)
(***************************************************************************)
s_py == <<".","p","y">>
s_item == <<"_","i","t","e","m">>
s_GET == <<"G","E","T">>
s_POST == <<"P","O","S","T">>
s_PUT == <<"P","U","T">>
s_DELETE == <<"D","E","L","E","T","E">>

NonEmpty(parts) == SelectSeq(parts, LAMBDA x : x # <<>>)
HasBrace(text) == Contains(text, "{") \/ Contains(text, "}")
Lower(s) == [i \in DOMAIN s |-> ToLower(s[i])]

\* sub in s
RECURSIVE ContainsSub(_, _)
ContainsSub(s, sub) ==
    IF Len(s) < Len(sub) THEN FALSE
    ELSE StartsWith(s, sub) \/ ContainsSub(Tail(s), sub)

\* s.replace(sub, rep) for a non-empty sub
RECURSIVE ReplaceSub(_, _, _)
ReplaceSub(s, sub, rep) ==
    IF s = <<>> THEN <<>>
    ELSE IF StartsWith(s, sub)
    THEN rep \o ReplaceSub(SubSeq(s, Len(sub) + 1, Len(s)), sub, rep)
    ELSE <<Head(s)>> \o ReplaceSub(Tail(s), sub, rep)

\* EndpointGenerator.__init__
NewEndpointGenerator ==
    [generated_classes |-> {},
     class_counter |-> [b \in {} |-> 0],
     endpoint_files |-> <<>>,
     endpoint_class_names |-> [q \in {} |-> ""],
     model_name_map |-> EmptyDict]

get_base_name(endpoint) ==
    LET path_parts == SelectSeq(Split(endpoint.path, "/"),
                                LAMBDA x : x # <<>> /\ ~StartsWith(x, <<"{">>))
        name_parts == [i \in DOMAIN path_parts |->
                         Title(ReplaceChar(path_parts[i], "-", "_"))]
        base_name == IF path_parts # <<>> THEN Str(Concat(name_parts)) ELSE "Api"
    IN base_name \o "Endpoints"

\* self.class_counter[base_name], 0 where the name has no counter yet
CounterOf(gen, base_name) ==
    IF base_name \in DOMAIN gen.class_counter THEN gen.class_counter[base_name]
    ELSE 0

\* mutant: the counter is read but never advanced
generate_class_name_stuck(gen, endpoint) ==
    Bind(get_base_name(endpoint), LAMBDA base_name :
    Bind(CounterOf(gen, base_name), LAMBDA counter :
    Bind(IF counter = 0 THEN base_name ELSE base_name \o IntToStr(counter),
         LAMBDA class_name :
      [gen |-> [gen EXCEPT !.class_counter = Put(@, base_name, counter),
                           !.generated_classes = @ \cup {class_name}],
       name |-> class_name])))

\* mutant: the first name of a base name carries the counter too
generate_class_name_numbered(gen, endpoint) ==
    Bind(get_base_name(endpoint), LAMBDA base_name :
    Bind(CounterOf(gen, base_name), LAMBDA counter :
    Bind(base_name \o IntToStr(counter), LAMBDA class_name :
      [gen |-> [gen EXCEPT !.class_counter = Put(@, base_name, counter + 1),
                           !.generated_classes = @ \cup {class_name}],
       name |-> class_name])))

\* _generate_class_name: [gen, name]
generate_class_name(gen, endpoint) ==
    Bind(get_base_name(endpoint), LAMBDA base_name :
    Bind(CounterOf(gen, base_name), LAMBDA counter :
    Bind(IF counter = 0 THEN base_name ELSE base_name \o IntToStr(counter),
         LAMBDA class_name :
      [gen |-> [gen EXCEPT !.class_counter = Put(@, base_name, counter + 1),
                           !.generated_classes = @ \cup {class_name}],
       name |-> class_name])))

NeedsClass(endpoint) == endpoint.methods # <<>> \/ endpoint.children # <<>>

\* self.endpoint_class_names[path] = class_name, for c the [gen, name] just made
Named(c, path) ==
    [gen |-> [c.gen EXCEPT !.endpoint_class_names = Put(@, path, c.name)],
     name |-> c.name]

\* _collect_endpoint_recursive
RECURSIVE collect_endpoint_recursive(_, _)
RECURSIVE CollectEach(_, _)
collect_endpoint_recursive(gen, endpoint) ==
    CollectEach(IF NeedsClass(endpoint)
                THEN Named(generate_class_name(gen, endpoint), endpoint.path).gen
                ELSE gen,
                endpoint.children)
CollectEach(gen, list) ==
    IF list = <<>> THEN gen
    ELSE CollectEach(collect_endpoint_recursive(gen, Head(list)), Tail(list))

\* _collect_all_endpoints
collect_all_endpoints(gen, list) ==
    LET all == PreOrderAll(list)
        all_base_names == {get_base_name(all[i]) :
                             i \in {j \in DOMAIN all : NeedsClass(all[j])}}
    IN CollectEach([gen EXCEPT !.class_counter = [b \in all_base_names |-> 0]],
                   list)

PathParts(path) == NonEmpty(Split(Strip(path, {"/"}), "/"))

\* mutant: a node with path parameters gets no final _item component
get_file_path_flat(endpoint) ==
    Join([i \in DOMAIN PathParts(endpoint.path) |->
            IF StartsWith(PathParts(endpoint.path)[i], <<"{">>)
            THEN Strip(PathParts(endpoint.path)[i], {"{", "}"}) \o s_item
            ELSE ReplaceChar(PathParts(endpoint.path)[i], "-", "_")], s_slash)
    \o s_py

\* _get_file_path
get_file_path(endpoint) ==
    LET path_parts == PathParts(endpoint.path)
        convert(part) ==
            IF StartsWith(part, <<"{">>) /\ EndsWith(part, <<"}">>)
            THEN LET param_name == Strip(part, {"{", "}"})
                 IN (IF IsKeyword(param_name) THEN Append(param_name, "_")
                     ELSE param_name) \o s_item
            ELSE LET part_name == ReplaceChar(part, "-", "_")
                 IN IF IsKeyword(part_name) THEN Append(part_name, "_")
                    ELSE part_name
        converted_parts == [i \in DOMAIN path_parts |-> convert(path_parts[i])]
    IN IF path_parts = <<>> THEN <<"c","o","m","m","o","n">> \o s_py
       ELSE IF endpoint.path_params # <<>>
       THEN Join(Append(converted_parts, s_item), s_slash) \o s_py
       ELSE Join(converted_parts, s_slash) \o s_py

\* _calculate_relative_import
calculate_relative_import(from_path, to_path) ==
    LET from_parts == Split(ReplaceSub(from_path, s_py, <<>>), "/")
        to_parts == Split(ReplaceSub(to_path, s_py, <<>>), "/")
        from_dir_parts == SubSeq(from_parts, 1, Len(from_parts) - 1)
        shorter == IF Len(from_dir_parts) < Len(to_parts) THEN Len(from_dir_parts)
                   ELSE Len(to_parts)
        common_len == Cardinality({n \in 1..shorter :
                          \A i \in 1..n : from_dir_parts[i] = to_parts[i]})
        up_levels == Len(from_dir_parts) - common_len
        down_parts == SubSeq(to_parts, common_len + 1, Len(to_parts))
        relative_parts == [i \in 1..(up_levels + 1) |-> <<".">>] \o down_parts
    IN Join(relative_parts, <<".">>)

\* mutant: GET is named get whatever it returns
get_method_name_plain(method) ==
    IF method.method = s_GET THEN <<"g","e","t">>
    ELSE IF method.method = s_DELETE THEN <<"d","e","l","e","t","e">>
    ELSE IF method.name # <<>>
    THEN (IF IsKeyword(ReplaceChar(method.name, "-", "_"))
          THEN Append(ReplaceChar(method.name, "-", "_"), "_")
          ELSE ReplaceChar(method.name, "-", "_"))
    ELSE IF method.method = s_POST THEN <<"c","r","e","a","t","e">>
    ELSE <<"u","p","d","a","t","e">>

\* _get_method_name
get_method_name(method) ==
    LET http_method == method.method
        returns_array == ~IsNone(method.returns) /\ Val(method.returns).type = "array"
        chosen == IF http_method = s_POST
                  THEN (IF method.name # <<>> THEN method.name
                        ELSE <<"c","r","e","a","t","e">>)
                  ELSE IF http_method = s_PUT
                  THEN (IF method.name # <<>> THEN method.name
                        ELSE <<"u","p","d","a","t","e">>)
                  ELSE (IF method.name # <<>> THEN method.name
                        ELSE Lower(http_method))
        replaced == ReplaceChar(chosen, "-", "_")
        method_name == IF chosen = <<>> THEN chosen
                       ELSE IF IsKeyword(replaced) THEN Append(replaced, "_")
                       ELSE replaced
    IN IF http_method = s_GET
       THEN (IF returns_array THEN <<"l","i","s","t">> ELSE <<"g","e","t">>)
       ELSE IF http_method = s_DELETE THEN <<"d","e","l","e","t","e">>
       ELSE IF method_name # <<>> THEN method_name
       ELSE <<"e","x","e","c","u","t","e">>

\* self.model_name_map.get(base_name) of the model of a method
ModelNameOf(gen, endpoint, method_name, suffix) ==
    Bind(generate_base_model_name(endpoint, method_name, suffix), LAMBDA base_name :
      IF base_name \in DOMAIN gen.model_name_map
      THEN Some(gen.model_name_map[base_name]) ELSE None)

\* the return statement of a method, with_params when it has a request model
ReturnStatement(method_name, with_params) ==
    IF method_name = s_GET
    THEN (IF with_params
          THEN "return await self._get(params=params.model_dump(exclude_none=True) if params else None)"
          ELSE "return await self._get()")
    ELSE IF method_name = s_POST
    THEN (IF with_params
          THEN "return await self._post(data=params.model_dump(exclude_none=True) if params else None)"
          ELSE "return await self._post()")
    ELSE IF method_name = s_PUT
    THEN (IF with_params
          THEN "return await self._put(data=params.model_dump(exclude_none=True) if params else None)"
          ELSE "return await self._put()")
    ELSE IF method_name = s_DELETE THEN "return await self._delete()"
    ELSE "# Unknown HTTP method"

\* _generate_method: the dict of one method
generate_method(gen, endpoint, method_name, method, forbidden_names) ==
    Bind(get_method_name(method), LAMBDA mapped_name :
    Bind(IF method.parameters # <<>>
         THEN ModelNameOf(gen, endpoint, method_name, "Request") ELSE None,
         LAMBDA param_model :
      [name |-> IF mapped_name \in forbidden_names
                THEN (IF method.method = s_GET THEN <<"g","e","t">>
                      ELSE Append(mapped_name, "_"))
                ELSE mapped_name,
       http_method |-> method_name,
       param_model |-> param_model,
       response_model |-> IF HasReturn(method)
                          THEN ModelNameOf(gen, endpoint, method_name, "Response")
                          ELSE None,
       description |-> IF ~IsNone(method.description) /\ Val(method.description) # ""
                       THEN Val(method.description)
                       ELSE Str(Upper(method_name)) \o " operation",
       return_statement |->
           ReturnStatement(method_name,
                           ~IsNone(param_model) /\ Val(param_model) # "")]))

\* _generate_method_dict repeats the statements of _generate_method
generate_method_dict(gen, endpoint, method_name, method, forbidden_names) ==
    generate_method(gen, endpoint, method_name, method, forbidden_names)

\* the class name of a path: the cached one, or a new one that is cached
ClassNameFor(gen, endpoint) ==
    IF endpoint.path \in DOMAIN gen.endpoint_class_names
       /\ gen.endpoint_class_names[endpoint.path] # ""
    THEN [gen |-> gen, name |-> gen.endpoint_class_names[endpoint.path]]
    ELSE Named(generate_class_name(gen, endpoint), endpoint.path)

\* an identifier made of a text: hyphens replaced, a reserved word suffixed
Identifier(text) ==
    Bind(ReplaceChar(text, "-", "_"), LAMBDA replaced :
      IF IsKeyword(replaced) THEN Append(replaced, "_") ELSE replaced)

\* _generate_property: [gen, prop]
generate_property(gen, current_endpoint, child_endpoint) ==
    Bind(Identifier(child_endpoint.text), LAMBDA prop_name :
    Bind(ClassNameFor(gen, child_endpoint), LAMBDA c :
    Bind(get_file_path(current_endpoint), LAMBDA current_file_path :
    Bind(get_file_path(child_endpoint), LAMBDA child_file_path :
    Bind(Split(child_file_path, "/"), LAMBDA file_parts :
      [gen |-> c.gen,
       prop |-> [name |-> prop_name,
                 class |-> c.name,
                 path |-> child_endpoint.text,
                 module |-> ReplaceSub(file_parts[Len(file_parts)], s_py, <<>>),
                 import_path |->
                     IF EndsWith(current_file_path, s_slash \o s_item \o s_py)
                     THEN <<".">> \o prop_name \o <<".">> \o s_item
                     ELSE calculate_relative_import(current_file_path,
                                                    child_file_path)]])))))

\* the parameter a __call__ method takes for a parameterized child
CallParamName(child_endpoint) ==
    Bind(Strip(child_endpoint.text, {"{", "}"}), LAMBDA text_param :
    Bind(IF child_endpoint.path_params # <<>>
         THEN (IF text_param \in Range(child_endpoint.path_params)
               THEN text_param ELSE child_endpoint.path_params[1])
         ELSE <<>>, LAMBDA found :
    Bind(IF found = <<>> THEN <<"i","d">> ELSE found, LAMBDA named :
      IF IsKeyword(named) THEN Append(named, "_") ELSE named)))

\* _generate_call_method: [gen, call]
generate_call_method(gen, child_endpoint) ==
    Bind(CallParamName(child_endpoint), LAMBDA param_name :
    Bind(ClassNameFor(gen, child_endpoint), LAMBDA c :
    Bind(Lower(param_name), LAMBDA lowered :
      [gen |-> c.gen,
       call |-> [param_name |-> param_name,
                 param_type |-> IF ContainsSub(lowered, <<"i","d">>)
                                   \/ ContainsSub(lowered, <<"v","m","i","d">>)
                                   \/ ContainsSub(lowered, <<"p","o","r","t">>)
                                THEN "int" ELSE "str",
                 item_class |-> c.name,
                 import_path |-> <<".">> \o param_name \o s_item \o <<".">>
                                 \o s_item]])))

\* the loop over endpoint.children that emits the properties: [gen, props]
RECURSIVE PropertiesOf(_, _, _, _)
PropertiesOf(gen, endpoint, list, props) ==
    IF list = <<>> THEN [gen |-> gen, props |-> props]
    ELSE IF ~HasBrace(Head(list).text)
    THEN Bind(generate_property(gen, endpoint, Head(list)), LAMBDA g :
           PropertiesOf(g.gen, endpoint, Tail(list), Append(props, g.prop)))
    ELSE PropertiesOf(gen, endpoint, Tail(list), props)

\* mutant: the accessor is built from the last parameterized child
CallMethodOf_last(gen, children) ==
    IF children # <<>>
    THEN Bind(generate_call_method(gen, children[Len(children)]), LAMBDA g :
           [gen |-> g.gen, call |-> Some(g.call)])
    ELSE [gen |-> gen, call |-> None]

\* the __call__ method of a class whose first listed child is parameterized
CallMethodOf(gen, children) ==
    IF children # <<>>
    THEN Bind(generate_call_method(gen, children[1]), LAMBDA g :
           [gen |-> g.gen, call |-> Some(g.call)])
    ELSE [gen |-> gen, call |-> None]

\* _generate_endpoint_class: [gen, class], class None for a bare leaf
generate_endpoint_class(gen, endpoint) ==
    IF ~NeedsClass(endpoint) THEN [gen |-> gen, class |-> None]
    ELSE
    Bind(ClassNameFor(gen, endpoint), LAMBDA c :
    Bind(PropertiesOf(c.gen, endpoint, endpoint.children, <<>>), LAMBDA p :
    Bind(CallMethodOf(p.gen,
                      IF ~HasBrace(endpoint.text)
                      THEN SelectSeq(endpoint.children, LAMBDA x : HasBrace(x.text))
                      ELSE <<>>), LAMBDA call :
      [gen |-> call.gen,
       class |-> Some([name |-> c.name,
                       docstring |-> "Endpoint class for " \o Str(endpoint.path),
                       properties |-> p.props,
                       methods |->
                           [i \in DOMAIN endpoint.methods |->
                              generate_method(
                                  p.gen, endpoint, endpoint.methods[i].key,
                                  endpoint.methods[i].value,
                                  {p.props[k].name : k \in DOMAIN p.props})],
                       call_method |-> call.call])])))

\* endpoint_files: the entry of file_path, created at the end when missing
FileIndex(files, file_path) ==
    IF \E i \in DOMAIN files : files[i].file_path = file_path
    THEN CHOOSE i \in DOMAIN files : files[i].file_path = file_path
    ELSE 0
EnsureFile(files, file_path) ==
    IF FileIndex(files, file_path) # 0 THEN files
    ELSE Append(files, [file_path |-> file_path, classes |-> <<>>])

\* self.endpoint_files[file_path].classes.append(class), the entry ensured
AppendClass(files, file_path, class) ==
    Bind(EnsureFile(files, file_path), LAMBDA ensured :
      [ensured EXCEPT ![FileIndex(ensured, file_path)].classes = Append(@, class)])

\* self.endpoint_files[file_path].classes.insert(0, class), the entry ensured
InsertClass(files, file_path, class) ==
    Bind(EnsureFile(files, file_path), LAMBDA ensured :
      [ensured EXCEPT ![FileIndex(ensured, file_path)].classes = <<class>> \o @])

\* _process_endpoint_recursive
RECURSIVE process_endpoint_recursive(_, _)
RECURSIVE ProcessEach(_, _)
process_endpoint_recursive(gen, endpoint) ==
    Bind(generate_endpoint_class(gen, endpoint), LAMBDA g :
      ProcessEach(
          IF (~IsNone(g.class) \/ endpoint.children # <<>>)
             /\ Len(PathParts(endpoint.path)) # 1
          THEN [g.gen EXCEPT !.endpoint_files =
                  IF IsNone(g.class) THEN EnsureFile(@, get_file_path(endpoint))
                  ELSE AppendClass(@, get_file_path(endpoint), Val(g.class))]
          ELSE g.gen,
          endpoint.children))
ProcessEach(gen, list) ==
    IF list = <<>> THEN gen
    ELSE ProcessEach(process_endpoint_recursive(gen, Head(list)), Tail(list))

\* the properties of a root class: the members of the group below the root
RootProperties(gen, root_path, group) ==
    Bind(SelectSeq(group, LAMBDA e :
             /\ e.path # root_path
             /\ e.path \in DOMAIN gen.endpoint_class_names
             /\ gen.endpoint_class_names[e.path] # ""
             /\ Len(Split(Strip(e.path, {"/"}), "/")) > 1), LAMBDA others :
      [i \in DOMAIN others |->
         [name |-> Bind(Split(Strip(others[i].path, {"/"}), "/")[2],
                        LAMBDA prop_name :
                          IF Contains(prop_name, "{") THEN s_item
                          ELSE ReplaceChar(prop_name, "-", "_")),
          type |-> gen.endpoint_class_names[others[i].path],
          description |-> "Access " \o Str(others[i].path) \o " endpoints"]])

\* the methods of a root class: those of every member that is the root itself
RECURSIVE RootMethods(_, _, _)
RootMethods(gen, roots, forbidden_names) ==
    IF roots = <<>> THEN <<>>
    ELSE [i \in DOMAIN Head(roots).methods |->
            generate_method_dict(gen, Head(roots), Head(roots).methods[i].key,
                                 Head(roots).methods[i].value, forbidden_names)]
         \o RootMethods(gen, Tail(roots), forbidden_names)

\* _create_root_class_for_group
create_root_class_for_group(gen, root_name, group) ==
    Bind(SelectSeq(group, LAMBDA e : e.path = s_slash \o root_name), LAMBDA roots :
    Bind(CallMethodOf(gen,
                      IF roots = <<>> THEN <<>>
                      ELSE SelectSeq(roots[1].children,
                                     LAMBDA x : x.path_params # <<>>)),
         LAMBDA call :
    Bind(RootProperties(gen, s_slash \o root_name, group), LAMBDA properties :
      [call.gen EXCEPT !.endpoint_files =
         InsertClass(
             @, root_name \o <<"/","_","_","i","n","i","t","_","_">> \o s_py,
             [name |-> Str(Capitalize(ReplaceChar(root_name, "-", "_")))
                       \o "Endpoints",
              docstring |-> "Root endpoint class for " \o Str(root_name)
                            \o " API endpoints.",
              properties |-> properties,
              methods |-> RootMethods(call.gen, roots,
                                      {properties[i].name : i \in DOMAIN properties}),
              call_method |-> call.call])])))

\* _create_root_endpoint_classes: the groups in insertion order, then a class each
RECURSIVE RootGroups(_)
RootGroups(list) ==
    IF list = <<>> THEN <<>>
    ELSE LET init == RootGroups(SubSeq(list, 1, Len(list) - 1))
             e == list[Len(list)]
             path_parts == Split(Strip(e.path, {"/"}), "/")
             root_name == path_parts[1]
         IN IF root_name = <<>> THEN init
            ELSE IF \E i \in DOMAIN init : init[i].root_name = root_name
            THEN [i \in DOMAIN init |->
                    IF init[i].root_name = root_name
                    THEN [init[i] EXCEPT !.endpoints = Append(@, e)]
                    ELSE init[i]]
            ELSE Append(init, [root_name |-> root_name, endpoints |-> <<e>>])

RECURSIVE CreateEach(_, _)
CreateEach(gen, groups) ==
    IF groups = <<>> THEN gen
    ELSE CreateEach(create_root_class_for_group(gen, Head(groups).root_name,
                                                Head(groups).endpoints),
                    Tail(groups))

create_root_endpoint_classes(gen, list) == CreateEach(gen, RootGroups(list))

(***************************************************************************)
(* The parameter specifications the type mapper is applied to.             *)
(***************************************************************************)
s_a == <<"a">>
s_b == <<"b">>
s_c == <<"c">>
s_pve_node == <<"p","v","e","-","n","o","d","e">>
s_password == <<"p","a","s","s","w","o","r","d">>
s_custom == <<"x","-","f","m","t">>

\* an enum of LiteralEnumLimit + 1 members, and one of exactly LiteralEnumLimit
EnumPool == [i \in 1..(LiteralEnumLimit + 1) |-> <<Lowers[i]>>]
LargeEnum == EnumPool
FullEnum == SubSeq(EnumPool, 1, LiteralEnumLimit)

RawTypes == {"string", "integer", "number", "boolean", "null", "object",
             "array", "pve-custom"}
Formats == {None, Some(StrV(s_pve_node)), Some(StrV(s_password)),
            Some(StrV(s_custom)), Some([type |-> "string"])}
Enums == {None, Some(<<s_b, s_a>>), Some(<<s_a, s_b, s_a>>), Some(FullEnum),
          Some(LargeEnum)}
Defaults == {None, Some(StrV(s_c)), Some(StrV(s_a)), Some(IntV(0))}
Minimums == {None, Some(IntV(1))}
ItemSpecs == {None,
              Some([type |-> "string", optional |-> TRUE, enum |-> Some(<<s_b, s_a>>)]),
              Some([type |-> "integer", format |-> Some(StrV(s_pve_node))])}

ScalarSpecs ==
    [type : RawTypes \ {"array"}, format : Formats, optional : BOOLEAN,
     default : Defaults, minimum : Minimums, enum : Enums]
ArraySpecs ==
    [type : {"array"}, format : {None}, optional : BOOLEAN, default : Defaults,
     minimum : {None}, enum : {None, Some(<<s_b, s_a>>)}, items : ItemSpecs]
DescribedSpecs ==
    [type : {"string", "integer"}, description : {"Test parameter"},
     optional : BOOLEAN, default : Defaults, minimum : Minimums]
ParamSpecs == ScalarSpecs \cup ArraySpecs \cup DescribedSpecs

IdlePipeline ==
    /\ pc = "off"
    /\ raw_schema = <<>>
    /\ endpoints = <<>>
    /\ model_gen = None
    /\ endpoint_gen = None
    /\ model_out = None
    /\ cursor = 0
    /\ run = 0
    /\ started = "none"
    /\ prev = None
IdleMapper == param_spec = None /\ mapped = None
IdlePaths == fp_endpoint = None /\ fp_result = None
IdleNames == field_name = None /\ sanitized = None
IdleAnalysis == edge_cases = None
IdleImports == ri_paths = None /\ ri_result = None
IdleClient == root_endpoints = None

MapInit ==
    /\ IdlePipeline
    /\ IdlePaths
    /\ IdleNames
    /\ IdleAnalysis
    /\ IdleImports
    /\ IdleClient
    /\ param_spec \in {Some(s) : s \in ParamSpecs}
    /\ mapped = None

\* TypeMapper.map_parameter_type(param_spec, param_name)
MapParameterType ==
    /\ param_spec # None
    /\ mapped = None
    /\ mapped' = Some(map_parameter_type(Val(param_spec)))
    /\ UNCHANGED <<pc, pipeline_vars, param_spec, path_vars, name_vars, analysis_vars,
                   import_vars, client_vars>>

MapNext == MapParameterType
MapSpec == MapInit /\ [][MapNext]_vars

(***************************************************************************)
(* The raw schema documents the pipeline is run on: every forest of at     *)
(* most MaxNodes nodes whose siblings have distinct texts, each node with  *)
(* one of the method tables of Infos, and one document that lacks a path.  *)
(***************************************************************************)
MaxNodes == 3
MaxRuns == 2

s_nodes == <<"n","o","d","e","s">>
s_a_b == <<"a","-","b">>
s_node_param == <<"{","n","o","d","e","}">>
s_b_param == <<"{","b","}">>
s_id == <<"i","d">>
s_name == <<"n","a","m","e">>

s_Nodes == <<"N","o","d","e","s">>
RootTexts == {s_nodes, s_Nodes, s_a_b}
ChildTexts == {s_node_param, s_b, s_b_param}

\* the parameters of conftest.py's sample schema
SampleProperties ==
    << <<s_id, [type |-> "integer", description |-> "ID parameter",
                minimum |-> IntV(1)]>>,
       <<s_name, [type |-> "string", description |-> "Name parameter",
                  optional |-> 1]>> >>

InfoGet ==
    << <<s_GET, [name |-> <<"g","e","t","_","t","e","s","t">>,
                 description |-> "Test GET method",
                 parameters |-> [properties |-> SampleProperties],
                 returns |-> [type |-> "object"]]>> >>
InfoListCreate ==
    << <<s_GET, [returns |-> [type |-> "array"]]>>,
       <<s_POST, [parameters |-> [properties |-> SampleProperties],
                  returns |-> [type |-> "null"]]>> >>
Infos == {<<>>, InfoGet, InfoListCreate}

\* a node of the document; info and children are keys only when non-empty
RawNode(parent_path, text, info, children) ==
    LET base == [path |-> parent_path \o s_slash \o text, text |-> text,
                 leaf |-> IF children = <<>> THEN 1 ELSE 0]
        with_info == IF info = <<>> THEN base ELSE Put(base, "info", info)
    IN IF children = <<>> THEN with_info ELSE Put(with_info, "children", children)

\* the trees of exactly n nodes and the forests of exactly n nodes
RECURSIVE TreesExact(_, _, _)
RECURSIVE ForestsExact(_, _, _)
TreesExact(n, parent_path, texts) ==
    UNION {UNION {{RawNode(parent_path, t, info, kids) : info \in Infos} :
                    kids \in ForestsExact(n - 1, parent_path \o s_slash \o t,
                                          ChildTexts)} :
             t \in texts}
ForestsExact(n, parent_path, texts) ==
    IF n = 0 THEN {<<>>}
    ELSE UNION {UNION {{<<first>> \o rest :
                          rest \in ForestsExact(n - k, parent_path,
                                                texts \ {first.text})} :
                         first \in TreesExact(k, parent_path, texts)} :
                  k \in 1..n}

\* a node without its path key: parsing it raises KeyError
Malformed == <<[text |-> s_nodes, leaf |-> 1]>>

\* the number of nodes of a raw node and of a list of raw nodes
RECURSIVE NodeCount(_)
RECURSIVE NodeCountAll(_)
NodeCount(node) ==
    1 + (IF "children" \in DOMAIN node THEN NodeCountAll(node.children) ELSE 0)
NodeCountAll(list) ==
    IF list = <<>> THEN 0 ELSE NodeCount(Head(list)) + NodeCountAll(Tail(list))

\* the document without the key of its k-th node in pre-order
RECURSIVE DropInNode(_, _, _)
RECURSIVE DropInForest(_, _, _)
DropInNode(node, k, key) ==
    IF k = 1 THEN [x \in DOMAIN node \ {key} |-> node[x]]
    ELSE [node EXCEPT !.children = DropInForest(@, k - 1, key)]
DropInForest(list, k, key) ==
    IF list = <<>> THEN <<>>
    ELSE IF k <= NodeCount(Head(list))
    THEN <<DropInNode(Head(list), k, key)>> \o Tail(list)
    ELSE <<Head(list)>> \o DropInForest(Tail(list), k - NodeCount(Head(list)), key)

\* no node of the list declares a method
RECURSIVE Bare(_)
Bare(list) ==
    \A i \in DOMAIN list :
       /\ "info" \notin DOMAIN list[i]
       /\ "children" \in DOMAIN list[i] => Bare(list[i].children)

\* the documents without methods in which one node lacks its path or its text
MalformedSchemas(max_nodes) ==
    UNION {UNION {{DropInForest(f, k, key) : k \in 1..n, key \in {"path", "text"}} :
                    f \in {g \in ForestsExact(n, <<>>, RootTexts) : Bare(g)}} :
             n \in 1..max_nodes}

\* a document whose node b, listed below /nodes, carries the path /a-b/b
Misplaced ==
    <<RawNode(<<>>, s_nodes, InfoGet,
              <<RawNode(s_slash \o s_a_b, s_b, InfoGet, <<>>)>>)>>

\* the documents of at most max_nodes nodes, the malformed ones and the
\* misplaced one
RawSchemas(max_nodes) ==
    UNION {ForestsExact(n, <<>>, RootTexts) : n \in 1..max_nodes}
    \cup {Malformed, Misplaced} \cup MalformedSchemas(max_nodes)

(***************************************************************************)
(* The pipeline, SDKGenerator.generate (tools/generate.py): parse, the     *)
(* models, the three passes of generate_endpoints; then the pipeline is    *)
(* run again on the same document, by a new SDKGenerator or by the same.   *)
(***************************************************************************)
\* what a finished run produced
Outputs ==
    [model_out |-> Val(model_out),
     class_names |-> endpoint_gen.endpoint_class_names,
     files |-> endpoint_gen.endpoint_files,
     clean |-> started = "fresh"]

Init ==
    /\ IdleMapper
    /\ IdlePaths
    /\ IdleNames
    /\ IdleAnalysis
    /\ IdleImports
    /\ IdleClient
    /\ pc = "start"
    /\ raw_schema \in RawSchemas(MaxNodes)
    /\ endpoints = <<>>
    /\ model_gen = NewModelGenerator(NoModels)
    /\ endpoint_gen = NewEndpointGenerator
    /\ model_out = None
    /\ cursor = 0
    /\ run = 1
    /\ started = "fresh"
    /\ prev = None

\* Step 2: self.parser.parse(raw_schema)
Parse ==
    /\ pc = "start"
    /\ LET r == parse(raw_schema)
       IN IF IsError(r)
          THEN pc' = "failed" /\ UNCHANGED endpoints
          ELSE pc' = "parsed" /\ endpoints' = r.endpoints
    /\ UNCHANGED <<raw_schema, model_gen, endpoint_gen, model_out, cursor, run,
                   started, prev, mapper_vars, path_vars, name_vars, analysis_vars,
                   import_vars, client_vars>>

\* Step 4: self._generate_models(endpoints)
GenerateModels ==
    /\ pc = "parsed"
    /\ LET r == generate_models_sdk(model_gen, endpoints)
       IN /\ model_gen' = r.gen
          /\ model_out' = Some([files |-> r.files,
                                model_name_map |-> r.model_name_map])
    /\ pc' = "models"
    /\ UNCHANGED <<raw_schema, endpoints, endpoint_gen, cursor, run, started,
                   prev, mapper_vars, path_vars, name_vars, analysis_vars,
                   import_vars, client_vars>>

\* generate_endpoints up to its second pass: the name map, pass 1, the reset
CollectAllEndpoints ==
    /\ pc = "models"
    /\ endpoint_gen' =
          [collect_all_endpoints(
               [endpoint_gen EXCEPT !.model_name_map = Val(model_out).model_name_map],
               endpoints)
           EXCEPT !.endpoint_files = <<>>]
    /\ cursor' = 1
    /\ pc' = "pass2"
    /\ UNCHANGED <<raw_schema, endpoints, model_gen, model_out, run, started,
                   prev, mapper_vars, path_vars, name_vars, analysis_vars,
                   import_vars, client_vars>>

\* one turn of the loop of the second pass
ProcessEndpoint ==
    /\ pc = "pass2"
    /\ cursor <= Len(endpoints)
    /\ endpoint_gen' = process_endpoint_recursive(endpoint_gen, endpoints[cursor])
    /\ cursor' = cursor + 1
    /\ UNCHANGED <<pc, raw_schema, endpoints, model_gen, model_out, run, started,
                   prev, mapper_vars, path_vars, name_vars, analysis_vars,
                   import_vars, client_vars>>

\* the third pass, after which generate_endpoints returns
CreateRootEndpointClasses ==
    /\ pc = "pass2"
    /\ cursor > Len(endpoints)
    /\ endpoint_gen' = create_root_endpoint_classes(endpoint_gen, endpoints)
    /\ pc' = "done"
    /\ UNCHANGED <<raw_schema, endpoints, model_gen, model_out, cursor, run,
                   started, prev, mapper_vars, path_vars, name_vars, analysis_vars,
                   import_vars, client_vars>>

\* a new SDKGenerator, hence new generator objects, runs the pipeline again
RunAgainFresh ==
    /\ pc = "done"
    /\ run < MaxRuns
    /\ prev' = Some(Outputs)
    /\ model_gen' = NewModelGenerator(model_gen)
    /\ endpoint_gen' = NewEndpointGenerator
    /\ started' = "fresh"
    /\ run' = run + 1
    /\ pc' = "start"
    /\ endpoints' = <<>>
    /\ model_out' = None
    /\ cursor' = 0
    /\ UNCHANGED <<raw_schema, mapper_vars, path_vars, name_vars, analysis_vars,
                   import_vars, client_vars>>

\* the same SDKGenerator, hence the same generator objects, runs it again
RunAgainSame ==
    /\ pc = "done"
    /\ run < MaxRuns
    /\ prev' = Some(Outputs)
    /\ started' = "reuse"
    /\ run' = run + 1
    /\ pc' = "start"
    /\ endpoints' = <<>>
    /\ model_out' = None
    /\ cursor' = 0
    /\ UNCHANGED <<raw_schema, model_gen, endpoint_gen, mapper_vars, path_vars, name_vars, analysis_vars,
                   import_vars, client_vars>>

Next ==
    \/ Parse
    \/ GenerateModels
    \/ CollectAllEndpoints
    \/ ProcessEndpoint
    \/ CreateRootEndpointClasses
    \/ RunAgainFresh
    \/ RunAgainSame

Spec == Init /\ [][Next]_vars

(***************************************************************************)
(* _get_file_path on its own: the endpoint of every path of at most        *)
(* MaxSegments segments drawn from Segments, parsed as the parser does.    *)
(***************************************************************************)
MaxSegments == 4

s_qemu == <<"q","e","m","u">>
s_vmid_param == <<"{","v","m","i","d","}">>
s_access == <<"a","c","c","e","s","s">>
s_class == <<"c","l","a","s","s">>
s_class_param == <<"{","c","l","a","s","s","}">>

Segments == {s_nodes, s_node_param, s_qemu, s_vmid_param, s_access, s_a_b,
             s_class, s_class_param}

\* "/" before every segment
PathOf(segments) == Concat([i \in DOMAIN segments |-> s_slash \o segments[i]])

SegmentLists == UNION {[1..n -> Segments] : n \in 1..MaxSegments}

\* the endpoint the parser makes of the node at the end of the segments
EndpointAt(segments) ==
    parse_node(RawNode(PathOf(SubSeq(segments, 1, Len(segments) - 1)),
                       segments[Len(segments)], <<>>, <<>>),
               PathOf(SubSeq(segments, 1, Len(segments) - 1)))

PathInit ==
    /\ IdlePipeline
    /\ IdleMapper
    /\ IdleNames
    /\ IdleAnalysis
    /\ IdleImports
    /\ IdleClient
    /\ fp_endpoint \in {Some(EndpointAt(segments)) : segments \in SegmentLists}
    /\ fp_result = None

\* EndpointGenerator._get_file_path(endpoint)
GetFilePath ==
    /\ fp_endpoint # None
    /\ fp_result = None
    /\ fp_result' = Some(get_file_path(Val(fp_endpoint)))
    /\ UNCHANGED <<pc, pipeline_vars, mapper_vars, fp_endpoint, name_vars, analysis_vars,
                   import_vars, client_vars>>

PathNext == GetFilePath
PathSpec == PathInit /\ [][PathNext]_vars

(***************************************************************************)
(* Claims about the pipeline, checked under Spec.                          *)
(***************************************************************************)
\* the path -> class name table of the endpoint generator
Table == endpoint_gen.endpoint_class_names

\* the nodes of the parsed tree in pre-order, children in schema order
AllNodes == PreOrderAll(endpoints)

\* C1: at every moment of a generate_endpoints run, two distinct paths of the
\* path -> class name table have different class names, the names given
\* lazily to nodes without methods and children included.
C1_DistinctClassNames ==
    \A p \in DOMAIN Table : \A q \in DOMAIN Table : p # q => Table[p] # Table[q]

\* a finished run whose table holds a lazily named bare leaf beside another
\* path of the same base name
C1_Witness ==
    /\ pc = "done"
    /\ \E i \in DOMAIN AllNodes : \E j \in DOMAIN AllNodes :
          /\ ~NeedsClass(AllNodes[i])
          /\ AllNodes[i].path \in DOMAIN Table
          /\ AllNodes[j].path \in DOMAIN Table
          /\ i # j
          /\ get_base_name(AllNodes[i]) = get_base_name(AllNodes[j])
          /\ Table[AllNodes[i].path] # Table[AllNodes[j].path]

\* the names of the classes and of the models, and the file paths, of a run
ClassNamesIn(files) ==
    UNION {{files[i].classes[k].name : k \in DOMAIN files[i].classes} :
             i \in DOMAIN files}
ModelNamesIn(out) ==
    UNION {{out.files[i].models[k].name : k \in DOMAIN out.files[i].models} :
             i \in DOMAIN out.files}
FilePathsIn(files, out) ==
    {files[i].file_path : i \in DOMAIN files}
    \cup {out.files[i].filename : i \in DOMAIN out.files}

Rank(i) ==
    Cardinality({j \in 1..(i - 1) :
                   /\ NeedsClass(AllNodes[j])
                   /\ get_base_name(AllNodes[j]) = get_base_name(AllNodes[i])})

\* how many nodes need a class and have the base name B
SharingBase(B) ==
    Cardinality({j \in DOMAIN AllNodes :
                   NeedsClass(AllNodes[j]) /\ get_base_name(AllNodes[j]) = B})

\* C3: after the allocation pass, the k-th node in pre-order among those that
\* have a method or a child and share the base name B is named B when k = 0
\* and B followed by the decimal k otherwise; two siblings that are the two
\* nodes base-naming to NodesEndpoints are named NodesEndpoints and
\* NodesEndpoints1 in traversal order.
C3_KthName ==
    pc \in {"pass2", "done"} =>
        /\ \A i \in DOMAIN AllNodes :
              NeedsClass(AllNodes[i]) =>
                 /\ AllNodes[i].path \in DOMAIN Table
                 /\ Table[AllNodes[i].path] =
                       IF Rank(i) = 0 THEN get_base_name(AllNodes[i])
                       ELSE get_base_name(AllNodes[i]) \o IntToStr(Rank(i))
        /\ \A i \in DOMAIN endpoints : \A j \in DOMAIN endpoints :
              (/\ i < j
               /\ NeedsClass(endpoints[i]) /\ NeedsClass(endpoints[j])
               /\ get_base_name(endpoints[i]) = "NodesEndpoints"
               /\ get_base_name(endpoints[j]) = "NodesEndpoints"
               /\ SharingBase("NodesEndpoints") = 2) =>
                 /\ Table[endpoints[i].path] = "NodesEndpoints"
                 /\ Table[endpoints[j].path] = "NodesEndpoints1"

\* the allocation pass has named the two siblings of base name NodesEndpoints
C3_Witness ==
    /\ pc = "pass2"
    /\ cursor = 1
    /\ \E i \in DOMAIN endpoints : \E j \in DOMAIN endpoints :
          /\ i < j
          /\ NeedsClass(endpoints[i]) /\ NeedsClass(endpoints[j])
          /\ get_base_name(endpoints[i]) = "NodesEndpoints"
          /\ get_base_name(endpoints[j]) = "NodesEndpoints"
          /\ SharingBase("NodesEndpoints") = 2
          /\ Table[endpoints[j].path] = "NodesEndpoints1"

\* C4: a second run on the same generator objects and the same tree ends with
\* exactly the model names and the class names of the first run.
C4_NoCarryOver ==
    (pc = "done" /\ started = "reuse" /\ run = 2) =>
        /\ ModelNamesIn(Val(model_out)) = ModelNamesIn(Val(prev).model_out)
        /\ Val(model_out).model_name_map = Val(prev).model_out.model_name_map
        /\ Table = Val(prev).class_names
        /\ ClassNamesIn(endpoint_gen.endpoint_files) = ClassNamesIn(Val(prev).files)

\* every class of every endpoint file, and every generated model
AllClasses ==
    UNION {{endpoint_gen.endpoint_files[i].classes[k] :
              k \in DOMAIN endpoint_gen.endpoint_files[i].classes} :
             i \in DOMAIN endpoint_gen.endpoint_files}
AllModels ==
    UNION {{Val(model_out).files[i].models[k] :
              k \in DOMAIN Val(model_out).files[i].models} :
             i \in DOMAIN Val(model_out).files}

\* the classes emitted for a node: its endpoint class, or the root class
ClassesOf(endpoint) ==
    {c \in AllClasses :
       \/ c.docstring = "Endpoint class for " \o Str(endpoint.path)
       \/ /\ Len(PathParts(endpoint.path)) = 1
          /\ c.docstring = "Root endpoint class for "
                           \o Str(PathParts(endpoint.path)[1]) \o " API endpoints."}

\* the names of the models generated for a path and a verb
ModelsFor(kind, endpoint, verb) ==
    {m.name : m \in {x \in AllModels :
                       x.docstring = kind \o " model for " \o Str(endpoint.path)
                                     \o " " \o Str(Upper(verb))}}

\* C5: on every generated endpoint method with parameters the recorded request
\* model is the model generated for that path and verb, and with a non-null
\* return the recorded response model is the one generated for that path and
\* verb, also when several paths derive the same base model name.
C5_WiredModels ==
    pc = "done" =>
        \A i \in DOMAIN AllNodes : \A k \in DOMAIN AllNodes[i].methods :
           \A c \in ClassesOf(AllNodes[i]) : \A n \in DOMAIN c.methods :
              c.methods[n].http_method = AllNodes[i].methods[k].key =>
                 /\ AllNodes[i].methods[k].value.parameters # <<>> =>
                       /\ c.methods[n].param_model # None
                       /\ Val(c.methods[n].param_model)
                            \in ModelsFor("Request", AllNodes[i], c.methods[n].http_method)
                 /\ HasReturn(AllNodes[i].methods[k].value) =>
                       /\ c.methods[n].response_model # None
                       /\ Val(c.methods[n].response_model)
                            \in ModelsFor("Response", AllNodes[i], c.methods[n].http_method)

\* the root class emitted at R/__init__ for the root node of text R
RootClassesOf(endpoint) ==
    {c \in AllClasses :
       c.docstring = "Root endpoint class for " \o Str(endpoint.text)
                     \o " API endpoints."}

\* C6: the root class of every root node /R has one property for each
\* immediate non-parameterized child of /R, a callable accessor when /R has a
\* parameterized child, and one method per verb declared on /R.
C6_RootClass ==
    pc = "done" =>
        \A i \in DOMAIN endpoints :
           /\ RootClassesOf(endpoints[i]) # {}
           /\ \A c \in RootClassesOf(endpoints[i]) :
                 /\ Len(c.properties) =
                       Len(SelectSeq(endpoints[i].children,
                                     LAMBDA x : ~HasBrace(x.text)))
                 /\ (\E k \in DOMAIN endpoints[i].children :
                        HasBrace(endpoints[i].children[k].text))
                       => c.call_method # None
                 /\ Len(c.methods) = Len(endpoints[i].methods)
                 /\ \A k \in DOMAIN endpoints[i].methods :
                       \E n \in DOMAIN c.methods :
                          c.methods[n].http_method = endpoints[i].methods[k].key

\* a raw node and its descendants all have the keys path and text
RECURSIVE WellFormed(_)
WellFormed(node) ==
    /\ {"path", "text"} \subseteq DOMAIN node
    /\ "children" \in DOMAIN node =>
          \A i \in DOMAIN node.children : WellFormed(node.children[i])

\* the endpoints are the raw nodes, one for one, in the same order and nesting
RECURSIVE Mirrors(_, _)
Mirrors(list, raw) ==
    /\ Len(list) = Len(raw)
    /\ \A i \in DOMAIN list :
          /\ list[i].path = raw[i].path
          /\ list[i].text = raw[i].text
          /\ Mirrors(list[i].children,
                     IF "children" \in DOMAIN raw[i] THEN raw[i].children ELSE <<>>)

\* C15: when a raw node at any depth lacks its path or its text, parse fails
\* and returns no tree, whatever the other nodes are; when every node has
\* both keys, parse returns one endpoint per raw node in the same order and
\* nesting.
C15_AllOrNothing ==
    pc # "start" =>
        IF \A i \in DOMAIN raw_schema : WellFormed(raw_schema[i])
        THEN pc # "failed" /\ Mirrors(endpoints, raw_schema)
        ELSE pc = "failed" /\ endpoints = <<>>

\* parse failed on a document whose first root node and first child are
\* well formed and in which a node two levels down lacks a key
C15_Witness ==
    /\ pc = "failed"
    /\ {"path", "text", "children"} \subseteq DOMAIN raw_schema[1]
    /\ {"path", "text", "children"} \subseteq DOMAIN raw_schema[1].children[1]
    /\ ~WellFormed(raw_schema[1].children[1].children[1])

\* the path of every node of the list is the parent's path, a slash and the
\* node's text, and so on below it
RECURSIVE PathsNested(_, _)
PathsNested(list, parent_path) ==
    \A i \in DOMAIN list :
       /\ list[i].path = parent_path \o s_slash \o list[i].text
       /\ PathsNested(list[i].children, list[i].path)

\* C16: in every tree that parse returned, the path of each child node is its
\* parent's path followed by / and the child's segment name or placeholder.
C16_ChildPaths ==
    pc \notin {"start", "failed"} =>
        \A i \in DOMAIN endpoints :
           PathsNested(endpoints[i].children, endpoints[i].path)

\* the parameterized children of a node, in schema order
ParameterizedChildren(endpoint) ==
    SelectSeq(endpoint.children, LAMBDA x : HasBrace(x.text))

\* C19 as stated: the class generated for a node carries a callable accessor
\* if and only if the node has a parameterized child, and the item class of
\* the accessor is the class name the table holds for the path of that child.
C19_CallableAccessorStated ==
    pc = "done" =>
        \A i \in DOMAIN AllNodes : \A c \in ClassesOf(AllNodes[i]) :
           /\ c.call_method # None <=> ParameterizedChildren(AllNodes[i]) # <<>>
           /\ c.call_method # None =>
                 \E k \in DOMAIN ParameterizedChildren(AllNodes[i]) :
                    /\ ParameterizedChildren(AllNodes[i])[k].path \in DOMAIN Table
                    /\ Val(c.call_method).item_class
                         = Table[ParameterizedChildren(AllNodes[i])[k].path]

\* C19: the class generated for a node carries a callable accessor if and only
\* if the text of the node holds no brace and the node has a parameterized
\* child, and the item class of the accessor is the class name the table holds
\* for the path of the first parameterized child.
C19_CallableAccessor ==
    pc = "done" =>
        \A i \in DOMAIN AllNodes : \A c \in ClassesOf(AllNodes[i]) :
           /\ c.call_method # None
                <=> /\ ~HasBrace(AllNodes[i].text)
                    /\ ParameterizedChildren(AllNodes[i]) # <<>>
           /\ c.call_method # None =>
                 /\ ParameterizedChildren(AllNodes[i])[1].path \in DOMAIN Table
                 /\ Val(c.call_method).item_class
                      = Table[ParameterizedChildren(AllNodes[i])[1].path]

\* a class with an accessor, its node having two parameterized children with
\* different class names
C19_Witness ==
    /\ pc = "done"
    /\ \E i \in DOMAIN AllNodes : \E c \in ClassesOf(AllNodes[i]) :
          /\ c.call_method # None
          /\ Len(ParameterizedChildren(AllNodes[i])) = 2
          /\ Table[ParameterizedChildren(AllNodes[i])[1].path]
             # Table[ParameterizedChildren(AllNodes[i])[2].path]

(***************************************************************************)
(* Claims about the file path, checked under PathSpec.                     *)
(***************************************************************************)
\* the segments of the path whose file path was asked
AskedSegments == NonEmpty(Split(Val(fp_endpoint).path, "/"))

IsPlaceholder(segment) ==
    Len(segment) >= 2 /\ Head(segment) = "{" /\ segment[Len(segment)] = "}"
Inner(segment) == SubSeq(segment, 2, Len(segment) - 1)

\* a segment as the claim maps it: {x} to x_item, any other to itself with
\* hyphens replaced and a reserved word suffixed
StatedComponent(segment) ==
    IF IsPlaceholder(segment) THEN Inner(segment) \o s_item
    ELSE Identifier(segment)

\* the same, {x} with x a reserved word mapping to x__item
AmendedComponent(segment) ==
    IF IsPlaceholder(segment)
    THEN (IF IsKeyword(Inner(segment)) THEN Append(Inner(segment), "_")
          ELSE Inner(segment)) \o s_item
    ELSE Identifier(segment)

\* the components joined, _item added for a node carrying path parameters
Joined(components) ==
    Join(IF \E i \in DOMAIN AskedSegments : IsPlaceholder(AskedSegments[i])
         THEN Append(components, s_item) ELSE components, s_slash)

\* the file path without its .py extension
ModulePath == SubSeq(Val(fp_result), 1, Len(Val(fp_result)) - Len(s_py))

C25_ModuleOfFinalSegment ==
    fp_result # None =>
        /\ ~IsPlaceholder(AskedSegments[Len(AskedSegments)]) =>
              ModulePath = Join([i \in DOMAIN AskedSegments |->
                                   AmendedComponent(AskedSegments[i])], s_slash)
        /\ IsPlaceholder(AskedSegments[Len(AskedSegments)])
           <=> EndsWith(ModulePath, s_slash \o s_item)
        /\ AskedSegments = <<s_nodes, s_node_param, s_qemu>> =>
              Str(ModulePath) = "nodes/node_item/qemu"
        /\ AskedSegments = <<s_nodes, s_node_param>> =>
              Str(ModulePath) = "nodes/node_item/_item"

(***************************************************************************)
(* Claims about the type mapper, checked under MapSpec.                    *)
(***************************************************************************)
RECURSIVE IntToChars(_)
IntToChars(n) == IF n < 10 THEN <<Digits[n + 1]>>
                 ELSE Append(IntToChars(n \div 10), Digits[(n % 10) + 1])
ValueChars(v) == IF IsStrV(v) THEN v.str ELSE IntToChars(v.int)

\* the closed literal union of a set of member texts: quoted, sorted, no duplicates
LiteralOf(S) ==
    LET q == Sorted(S)
    IN "Literal[" \o JoinText([i \in DOMAIN q |-> "\"" \o Str(q[i]) \o "\""], ", ")
       \o "]"

\* the enum members of a specification plus its default when that is no member
FoldedMembers(spec) ==
    LET e == Val(spec.enum)
        members == {e[i] : i \in DOMAIN e}
    IN IF "default" \in DOMAIN spec /\ ~IsNone(spec.default)
       THEN members \cup {ValueChars(Val(spec.default))}
       ELSE members

HasEnum(spec) == "enum" \in DOMAIN spec /\ ~IsNone(spec.enum)
SmallEnum(spec) == HasEnum(spec) /\ Len(Val(spec.enum)) <= LiteralEnumLimit
OptionalSuffix(spec) == IF spec.optional THEN " | None" ELSE ""

\* C8: for a string parameter whose enum has at most 10 members the mapped
\* type is the literal union of exactly the enum members plus the default
\* value when that is not a member, sorted, without duplicates.
C8_EnumFolding ==
    (mapped # None /\ Val(param_spec).type = "string" /\ SmallEnum(Val(param_spec)))
    => /\ ~IsError(Val(mapped))
       /\ Val(mapped).type = LiteralOf(FoldedMembers(Val(param_spec)))
                             \o OptionalSuffix(Val(param_spec))

BaseTypeOf(raw_type) ==
    CASE raw_type = "string" -> "str"
      [] raw_type = "integer" -> "int | str"
      [] raw_type = "number" -> "float | str"
      [] raw_type = "boolean" -> "bool | int | str"
      [] raw_type = "null" -> "None"
      [] OTHER -> "str"

\* C9: a specification with an enum of at most 10 members maps to the closed
\* literal union of the enum values whatever its primitive rawType and
\* format; with more than 10 members it maps to the unconstrained base type.
C9_EnumClosesType ==
    (mapped # None /\ Val(param_spec).type \notin {"array", "object"}
     /\ HasEnum(Val(param_spec)))
    => /\ ~IsError(Val(mapped))
       /\ SmallEnum(Val(param_spec)) =>
            Val(mapped).type = LiteralOf(FoldedMembers(Val(param_spec)))
                               \o OptionalSuffix(Val(param_spec))
       /\ ~SmallEnum(Val(param_spec)) =>
            Val(mapped).type \in
              {t \o OptionalSuffix(Val(param_spec)) :
                 t \in {BaseTypeOf(Val(param_spec).type)}
                       \cup Range(FORMAT_MAPPINGS)}

\* C10: the type mapped with optional = true is the type mapped with
\* optional = false wrapped once in the optional wrapper, with the same
\* constraint set; an optional integer with a minimum maps to the wrapped
\* integer type and its constraints carry ge.
C10_OptionalOrthogonal ==
    mapped # None =>
      LET spec == Val(param_spec)
          got == Val(mapped)
          other == map_parameter_type([spec EXCEPT !.optional = ~@])
          wrapped == IF spec.optional THEN got ELSE other
          plain == IF spec.optional THEN other ELSE got
      IN /\ IsError(wrapped) <=> IsError(plain)
         /\ ~IsError(got) =>
              /\ wrapped.type = plain.type \o " | None"
              /\ wrapped.kwargs = plain.kwargs
         /\ (spec.type = "integer" /\ spec.optional /\ Get(spec, "format") = None
             /\ Get(spec, "minimum") = Some(IntV(1)))
            => /\ got.type = "int | str | None"
               /\ "ge" \in DOMAIN got.kwargs
               /\ got.kwargs["ge"] = IntV(1)

\* an optional integer with a minimum has been mapped
C10_Witness ==
    /\ mapped # None
    /\ Val(param_spec).type = "integer"
    /\ Val(param_spec).optional
    /\ Get(Val(param_spec), "format") = None
    /\ Get(Val(param_spec), "minimum") = Some(IntV(1))
    /\ Val(mapped).type = "int | str | None"
    /\ Val(mapped).kwargs["ge"] = IntV(1)

\* C23: an optional string parameter without enum or format maps to the type
\* expression Optional[str], and the field kwargs carry the description and
\* the default value of the spec unchanged.
C23_OptionalString ==
    (/\ mapped # None
     /\ Val(param_spec).type = "string"
     /\ Val(param_spec).optional
     /\ Get(Val(param_spec), "enum") = None
     /\ Get(Val(param_spec), "format") = None)
    => /\ ~IsError(Val(mapped))
       /\ Val(mapped).type = "Optional[str]"
       /\ "description" \in DOMAIN Val(param_spec) =>
             /\ "description" \in DOMAIN Val(mapped).kwargs
             /\ Val(mapped).kwargs["description"] = Val(param_spec).description
       /\ Get(Val(param_spec), "default") # None =>
             /\ "default" \in DOMAIN Val(mapped).kwargs
             /\ Val(mapped).kwargs["default"] = Val(Val(param_spec).default)

\* the raw types the mapper gives a branch of its own
DocumentedRawTypes == {"string", "integer", "number", "boolean", "object",
                       "array", "null"}

\* C11: map_parameter_type returns a (type, constraint set) pair for every
\* parameter specification, never failing, and a rawType outside the
\* documented ones maps to the string type.
C11_Total ==
    mapped # None =>
        /\ ~IsError(Val(mapped))
        /\ Val(param_spec).type \notin DocumentedRawTypes =>
              Val(mapped).type = "str" \o OptionalSuffix(Val(param_spec))

(***************************************************************************)
(* The pipeline on the sample schema of conftest.py and on its variants:   *)
(* the root node /test with one method whose parameters are drawn from a   *)
(* pool of properties, in every order, and whose return is of every kind.  *)
(***************************************************************************)
s_test == <<"t","e","s","t">>
s_get_test == <<"g","e","t","_","t","e","s","t">>
s_1a == <<"1","a">>

\* the two properties of the sample schema
PropId == <<s_id, [type |-> "integer", description |-> "Test ID",
                   minimum |-> IntV(1)]>>
PropName == <<s_name, [type |-> "string", description |-> "Test name",
                       optional |-> 1]>>

\* properties whose names are no identifiers: a hyphen, a reserved word, a digit
PropHyphen == <<s_a_b, [type |-> "string"]>>
PropKeyword == <<s_class, [type |-> "boolean", optional |-> 1]>>
PropDigit == <<s_1a, [type |-> "number", description |-> ""]>>
PropUnderscore == <<ReplaceChar(s_a_b, "-", "_"), [type |-> "integer"]>>
PropertyPool == {PropId, PropName, PropHyphen, PropKeyword, PropDigit,
                 PropUnderscore}

\* the properties of a method: at most two of the pool, in either order
PropertyLists ==
    {<<>>} \cup {<<p>> : p \in PropertyPool}
    \cup {l \in PropertyPool \X PropertyPool : l[1] # l[2]}

\* the returns of a method: none declared, or one of these types
ReturnTypes == {"object", "array", "null", "string"}

\* the dict of a method: parameters and returns are keys only when declared
MethodInfo(name, properties, returns) ==
    LET base == [name |-> name, description |-> "Get test data"]
        with_parameters ==
            IF properties = None THEN base
            ELSE Put(base, "parameters", [properties |-> Val(properties)])
    IN IF returns = None THEN with_parameters
       ELSE Put(with_parameters, "returns", [type |-> Val(returns)])

\* conftest.py's sample_schema
SampleSchema ==
    <<RawNode(<<>>, s_test,
              << <<s_GET, MethodInfo(s_get_test, Some(<<PropId, PropName>>),
                                     Some("object"))>> >>,
              <<>>)>>

\* the sample schema with other properties and returns
PropertyVariants ==
    {<<RawNode(<<>>, s_test,
               << <<s_GET, MethodInfo(s_get_test, properties, returns)>> >>,
               <<>>)>> :
       properties \in {None} \cup {Some(l) : l \in PropertyLists},
       returns \in {None} \cup {Some(t) : t \in ReturnTypes}}

\* the method tables of one verb: with and without a declared operation
\* name, the name an identifier, hyphenated or a reserved word; and the table
\* of the four verbs
s_get == <<"g","e","t">>
s_list == <<"l","i","s","t">>
s_delete == <<"d","e","l","e","t","e">>
Verbs == {s_GET, s_POST, s_PUT, s_DELETE}
OperationNames == {<<>>, s_get_test, s_a_b, s_class}
VerbInfos ==
    {<< <<verb, MethodInfo(name, None, returns)>> >> :
       verb \in Verbs, name \in OperationNames,
       returns \in {None, Some("array"), Some("object")}}
    \cup {<< <<s_GET, MethodInfo(<<>>, None, Some("array"))>>,
              <<s_POST, MethodInfo(<<>>, None, None)>>,
              <<s_PUT, MethodInfo(s_get_test, None, None)>>,
              <<s_DELETE, MethodInfo(s_get_test, None, Some("null"))>> >>,
           << <<s_GET, MethodInfo(<<>>, None, Some("object"))>>,
              <<s_POST, MethodInfo(s_get, None, None)>> >>,
           << <<s_POST, MethodInfo(s_get_test, None, None)>>,
              <<s_PUT, MethodInfo(s_get_test, None, None)>> >>}

\* the children of /test/b: leaves whose texts are names methods are given
LeafTexts == {<<>>, <<s_get>>, <<s_list>>, <<s_list, s_get>>, <<s_delete>>,
              <<s_a_b>>}
Leaves(parent_path, texts) ==
    [i \in DOMAIN texts |-> RawNode(parent_path, texts[i], <<>>, <<>>)]

\* /test with a method table, and /test/b with a method table and leaves
VerbVariants ==
    {<<RawNode(<<>>, s_test, info, <<>>)>> : info \in VerbInfos}
    \cup {<<RawNode(<<>>, s_test, <<>>,
                    <<RawNode(s_slash \o s_test, s_b, info,
                              Leaves(s_slash \o s_test \o s_slash \o s_b,
                                     texts))>>)>> :
            info \in VerbInfos, texts \in LeafTexts}

SampleSchemas == {SampleSchema} \cup PropertyVariants \cup VerbVariants

SampleInit ==
    /\ IdleMapper
    /\ IdlePaths
    /\ IdleNames
    /\ IdleAnalysis
    /\ IdleImports
    /\ IdleClient
    /\ pc = "start"
    /\ raw_schema \in SampleSchemas
    /\ endpoints = <<>>
    /\ model_gen = NewModelGenerator(NoModels)
    /\ endpoint_gen = NewEndpointGenerator
    /\ model_out = None
    /\ cursor = 0
    /\ run = 1
    /\ started = "fresh"
    /\ prev = None

SampleSpec == SampleInit /\ [][Next]_vars

(***************************************************************************)
(* Claims about the models and classes of one node, checked under          *)
(* SampleSpec.                                                             *)
(***************************************************************************)
\* the models of every file the model generator returned
RECURSIVE ModelsOfFiles(_)
ModelsOfFiles(files) ==
    IF files = <<>> THEN <<>>
    ELSE Head(files).models \o ModelsOfFiles(Tail(files))
EmittedModels == ModelsOfFiles(Val(model_out).files)

\* the declared properties of the i-th method of the root node, in order
DeclaredProperties(i) ==
    IF "info" \notin DOMAIN raw_schema[1] THEN <<>>
    ELSE LET info == raw_schema[1].info[i][2]
         IN IF "parameters" \in DOMAIN info
               /\ "properties" \in DOMAIN info.parameters
            THEN info.parameters.properties ELSE <<>>

\* C12: a field of a request model carries the wire name as serialization
\* alias and as original_name exactly when its name differs from the wire
\* name; a field whose name is the wire name has no alias and no original_name.
C12_AliasWhenChanged ==
    (model_out # None /\ DeclaredProperties(1) # <<>>) =>
        LET fields == EmittedModels[1].fields
            declared == DeclaredProperties(1)
        IN /\ Len(fields) = Len(declared)
           /\ \A i \in DOMAIN fields :
                 IF fields[i].name # declared[i][1]
                 THEN /\ "serialization_alias" \in DOMAIN fields[i].field_kwargs
                      /\ fields[i].field_kwargs["serialization_alias"] = declared[i][1]
                      /\ fields[i].original_name = Some(declared[i][1])
                 ELSE /\ "serialization_alias" \notin DOMAIN fields[i].field_kwargs
                      /\ fields[i].original_name = None

\* a request model with the fields a_b (wire name a-b) and id has been made
C12_Witness ==
    /\ model_out # None
    /\ DeclaredProperties(1) = <<PropHyphen, PropId>>
    /\ EmittedModels[1].fields[1].name = <<"a","_","b">>
    /\ EmittedModels[1].fields[1].field_kwargs["serialization_alias"] = s_a_b
    /\ EmittedModels[1].fields[2].original_name = None

\* C14: on the sample schema (/test with a GET whose parameters are id,
\* integer with minimum 1, and name, optional string) one pipeline run yields
\* exactly one request model, named TestGETRequest, with the two fields id of
\* integer type with ge = 1 and name of optional string type, and the endpoint
\* class TestEndpoints whose get method references TestGETRequest.
C14_SampleScenario ==
    (raw_schema = SampleSchema /\ pc = "done" /\ started = "fresh") =>
        LET requests == {m \in AllModels :
                           m.docstring = "Request model for /test GET"}
            request == CHOOSE m \in requests : TRUE
        IN /\ Cardinality(requests) = 1
           /\ \A m \in AllModels \ requests :
                 m.docstring = "Response model for /test GET"
           /\ request.name = "TestGETRequest"
           /\ Len(request.fields) = 2
           /\ request.fields[1].name = s_id
           /\ request.fields[1].type_annotation = BaseTypeOf("integer")
           /\ request.fields[1].field_kwargs["ge"] = IntV(1)
           /\ request.fields[2].name = s_name
           /\ request.fields[2].type_annotation = BaseTypeOf("string") \o " | None"
           /\ Range(endpoint_gen.endpoint_class_names) = {"TestEndpoints"}
           /\ AllClasses # {}
           /\ \A c \in AllClasses :
                 /\ c.name = "TestEndpoints"
                 /\ Len(c.methods) = 1
                 /\ c.methods[1].name = <<"g","e","t">>
                 /\ c.methods[1].param_model = Some("TestGETRequest")

\* the first run on the sample schema is done and a class named TestEndpoints
\* has a get method wired to TestGETRequest
C14_Witness ==
    /\ raw_schema = SampleSchema
    /\ pc = "done"
    /\ started = "fresh"
    /\ \E c \in AllClasses :
          /\ c.name = "TestEndpoints"
          /\ c.methods[1].name = <<"g","e","t">>
          /\ c.methods[1].param_model = Some("TestGETRequest")

\* the name the mapping of verbs gives a method, the declared operation
\* name taken as it is
StatedMethodName(method) ==
    IF method.method = s_GET
    THEN (IF ~IsNone(method.returns) /\ Val(method.returns).type = "array"
          THEN s_list ELSE s_get)
    ELSE IF method.method = s_DELETE THEN s_delete
    ELSE IF method.name # <<>> THEN method.name
    ELSE IF method.method = s_POST THEN <<"c","r","e","a","t","e">>
    ELSE <<"u","p","d","a","t","e">>

\* the same, the declared operation name made an identifier: hyphens replaced
\* by underscores, a reserved word suffixed with an underscore
AmendedMethodName(method) ==
    IF method.method \in {s_POST, s_PUT} /\ method.name # <<>>
    THEN (IF IsKeyword(ReplaceChar(method.name, "-", "_"))
          THEN Append(ReplaceChar(method.name, "-", "_"), "_")
          ELSE ReplaceChar(method.name, "-", "_"))
    ELSE StatedMethodName(method)

\* every class of a node has one method per declared verb, in the order of
\* declaration, and a method whose name is no property of the class is named
\* as the naming says
MethodsNamedBy(naming(_)) ==
    \A i \in DOMAIN AllNodes : \A c \in ClassesOf(AllNodes[i]) :
       /\ Len(c.methods) = Len(AllNodes[i].methods)
       /\ \A k \in DOMAIN c.methods :
             /\ c.methods[k].http_method = AllNodes[i].methods[k].key
             /\ (\A n \in DOMAIN c.properties :
                    c.properties[n].name # naming(AllNodes[i].methods[k].value))
                => c.methods[k].name = naming(AllNodes[i].methods[k].value)

\* C17 as stated: each declared verb yields exactly one method, named list or
\* get for GET, the declared operation name or create for POST, the declared
\* operation name or update for PUT, delete for DELETE, collisions aside.
C17_MethodNamesStated == pc = "done" => MethodsNamedBy(StatedMethodName)

\* C17: each declared verb of a node yields exactly one method on its class,
\* named: GET list when the return type is array and get otherwise; POST the
\* declared operation name, or create when it is empty; PUT the declared
\* operation name, or update when it is empty; DELETE delete; a declared
\* operation name has its hyphens replaced by underscores and is suffixed
\* with an underscore when it is a reserved word.
C17_MethodNames == pc = "done" => MethodsNamedBy(AmendedMethodName)

\* the class of /test/b with the four verbs has the methods list, create,
\* get_test and delete
C17_Witness ==
    /\ pc = "done"
    /\ \E c \in AllClasses :
          /\ Len(c.methods) = 4
          /\ c.properties = <<>>
          /\ [k \in 1..4 |-> c.methods[k].name]
             = <<s_list, <<"c","r","e","a","t","e">>, s_get_test, s_delete>>

\* C18: in every generated class, of a node or of a root, no method has the
\* name of a property of the class.
C18_NoMethodPropertyClash ==
    pc = "done" =>
        \A c \in AllClasses :
           \A k \in DOMAIN c.methods : \A n \in DOMAIN c.properties :
              c.methods[k].name # c.properties[n].name

\* the names of the models of the run, file by file, with repetitions
ModelNames == [i \in DOMAIN EmittedModels |-> EmittedModels[i].name]

\* C21: within one run no two generated models have the same name, and every
\* name is a base name of the counter table or that base name followed by a
\* value below the counter of the base name.
C21_DistinctModelNames ==
    model_out # None =>
        /\ \A i, j \in DOMAIN ModelNames :
              i # j => ModelNames[i] # ModelNames[j]
        /\ \A i \in DOMAIN ModelNames :
              \E b \in DOMAIN model_gen.model_counter :
                 \/ ModelNames[i] = b
                 \/ \E n \in 1..(model_gen.model_counter[b] - 1) :
                       ModelNames[i] = b \o IntToStr(n)

\* two models of one run share the base name: one has it, the other has it
\* followed by 1
C21_Witness ==
    /\ model_out # None
    /\ run = 1
    /\ \E i, j \in DOMAIN ModelNames : ModelNames[j] = ModelNames[i] \o "1"

\* C28: within every generated request model the field names are pairwise
\* distinct.
C28_DistinctFieldNames ==
    model_out # None =>
        \A m \in DOMAIN EmittedModels :
           \A i, j \in DOMAIN EmittedModels[m].fields :
              i # j => EmittedModels[m].fields[i].name
                       # EmittedModels[m].fields[j].name

\* C29: within every generated class the method names are pairwise distinct.
C29_DistinctMethodNames ==
    pc = "done" =>
        \A c \in AllClasses : \A i, j \in DOMAIN c.methods :
           i # j => c.methods[i].name # c.methods[j].name

(***************************************************************************)
(* _sanitize_field_name on its own: every parameter name of at most        *)
(* MaxNameLen characters of NameChars, and two longer reserved words.      *)
(***************************************************************************)
MaxNameLen == 4

\* a letter pair that spells reserved words (is, in), a digit, an invalid
\* character, the underscore
NameChars == {"i", "s", "n", "1", "-", "_"}
s_None == <<"N","o","n","e">>

FieldNames ==
    UNION {[1..n -> NameChars] : n \in 0..MaxNameLen} \cup {s_class, s_None, s_a_b}

SanitizeInit ==
    /\ IdlePipeline
    /\ IdleMapper
    /\ IdlePaths
    /\ IdleAnalysis
    /\ IdleImports
    /\ IdleClient
    /\ field_name \in {Some(n) : n \in FieldNames}
    /\ sanitized = None

\* ModelGenerator._sanitize_field_name(name)
SanitizeFieldName ==
    /\ field_name # None
    /\ sanitized = None
    /\ sanitized' = Some(sanitize_field_name(Val(field_name)))
    /\ UNCHANGED <<pc, pipeline_vars, mapper_vars, path_vars, field_name,
                   analysis_vars,
                   import_vars, client_vars>>

\* the sanitised name is handed to _sanitize_field_name again
SanitizeAgain ==
    /\ sanitized # None
    /\ field_name # sanitized
    /\ field_name' = sanitized
    /\ sanitized' = None
    /\ UNCHANGED <<pc, pipeline_vars, mapper_vars, path_vars, analysis_vars,
                   import_vars, client_vars>>

SanitizeNext == SanitizeFieldName \/ SanitizeAgain
SanitizeSpec == SanitizeInit /\ [][SanitizeNext]_vars

(***************************************************************************)
(* Claims about field names, checked under SanitizeSpec.                   *)
(***************************************************************************)
\* C13: sanitising is idempotent: what _sanitize_field_name returns is
\* returned unchanged when sanitised again, it holds no invalid character,
\* does not start with a digit and is no reserved word.
C13_SanitizeIdempotent ==
    sanitized # None =>
        LET out == Val(sanitized)
        IN /\ sanitize_field_name(out) = out
           /\ \A i \in DOMAIN out : IsWordChar(out[i])
           /\ out # <<>> => ~IsDigit(out[1])
           /\ Str(out) \notin PythonKeywords

\* a name with a leading digit and an invalid character has been sanitised
C13_Witness ==
    /\ field_name = Some(<<"1", "-", "i", "s">>)
    /\ sanitized = Some(<<"f","i","e","l","d","_","1","_","i","s">>)

(***************************************************************************)
(* generate_models on its own (model_generator.py, 64-110): the document   *)
(* is parsed and the endpoints are handed to generate_models of a new      *)
(* ModelGenerator.                                                         *)
(***************************************************************************)
ModelNodes == 2

\* _get_module_name
get_module_name(endpoint) ==
    Bind(Split(Strip(endpoint.path, {"/"}), "/"), LAMBDA path_parts :
      IF path_parts # <<>> /\ path_parts[1] # <<>> THEN path_parts[1]
      ELSE <<"c","o","m","m","o","n">>)

\* models_by_module[module_name].append(model), the dict in insertion order
ModuleIndex(models_by_module, module_name) ==
    IF \E i \in DOMAIN models_by_module :
          models_by_module[i].module_name = module_name
    THEN CHOOSE i \in DOMAIN models_by_module :
            models_by_module[i].module_name = module_name
    ELSE 0
AppendModel(models_by_module, module_name, model) ==
    IF ModuleIndex(models_by_module, module_name) = 0
    THEN Append(models_by_module,
                [module_name |-> module_name, models |-> <<model>>])
    ELSE [models_by_module EXCEPT
            ![ModuleIndex(models_by_module, module_name)].models =
                Append(@, model)]

\* if model: models_by_module[module_name].append(model); acc is
\* [gen, models_by_module]
Collect(acc, module_name, r) ==
    IF IsNone(r.model) THEN [acc EXCEPT !.gen = r.gen]
    ELSE [gen |-> r.gen,
          models_by_module |->
              AppendModel(acc.models_by_module, module_name, Val(r.model))]

\* the body of the loop over endpoint.methods.items() in process_endpoint
ProcessMethod(acc, endpoint, entry) ==
    Bind(Collect(acc, get_module_name(endpoint),
                 IF entry.value.parameters # <<>>
                 THEN generate_request_model(acc.gen, endpoint, entry.key,
                                             entry.value)
                 ELSE [gen |-> acc.gen, model |-> None]),
         LAMBDA a1 :
           Collect(a1, get_module_name(endpoint),
                   IF ~IsNone(entry.value.returns)
                      /\ Val(entry.value.returns).type # "null"
                   THEN generate_response_model(a1.gen, endpoint, entry.key,
                                                entry.value)
                   ELSE [gen |-> a1.gen, model |-> None]))

RECURSIVE ProcessMethods(_, _, _)
ProcessMethods(acc, endpoint, entries) ==
    IF entries = <<>> THEN acc
    ELSE ProcessMethods(ProcessMethod(acc, endpoint, Head(entries)), endpoint,
                        Tail(entries))

\* process_endpoint: the methods of the endpoint, then its children
RECURSIVE process_endpoint(_, _)
RECURSIVE ProcessChildren(_, _)
process_endpoint(acc, endpoint) ==
    ProcessChildren(ProcessMethods(acc, endpoint, endpoint.methods),
                    endpoint.children)
ProcessChildren(acc, list) ==
    IF list = <<>> THEN acc
    ELSE ProcessChildren(process_endpoint(acc, Head(list)), Tail(list))

\* _create_model_file
create_model_file(module_name, models) ==
    [filename |-> module_name \o <<".","p","y">>, models |-> models]

\* mutant: the children of an endpoint are not visited
RECURSIVE ProcessRoots(_, _)
ProcessRoots(acc, list) ==
    IF list = <<>> THEN acc
    ELSE ProcessRoots(ProcessMethods(acc, Head(list), Head(list).methods),
                      Tail(list))
generate_models_flat(gen, list) ==
    Bind(ProcessRoots([gen |-> gen, models_by_module |-> <<>>], list),
         LAMBDA acc :
           [gen |-> acc.gen,
            files |-> [i \in DOMAIN acc.models_by_module |->
                         create_model_file(acc.models_by_module[i].module_name,
                                           acc.models_by_module[i].models)]])

\* generate_models: [gen, files]
generate_models(gen, list) ==
    Bind(ProcessChildren([gen |-> gen, models_by_module |-> <<>>], list),
         LAMBDA acc :
           [gen |-> acc.gen,
            files |-> [i \in DOMAIN acc.models_by_module |->
                         create_model_file(acc.models_by_module[i].module_name,
                                           acc.models_by_module[i].models)]])

ModelsInit ==
    /\ IdleMapper
    /\ IdlePaths
    /\ IdleNames
    /\ IdleAnalysis
    /\ IdleImports
    /\ IdleClient
    /\ pc = "start"
    /\ raw_schema \in SampleSchemas \cup RawSchemas(ModelNodes)
    /\ endpoints = <<>>
    /\ model_gen = NewModelGenerator(NoModels)
    /\ endpoint_gen = NewEndpointGenerator
    /\ model_out = None
    /\ cursor = 0
    /\ run = 1
    /\ started = "fresh"
    /\ prev = None

\* ModelGenerator().generate_models(endpoints)
GenerateModelsOnly ==
    /\ pc = "parsed"
    /\ LET r == generate_models(model_gen, endpoints)
       IN /\ model_gen' = r.gen
          /\ model_out' = Some([files |-> r.files])
    /\ pc' = "generated"
    /\ UNCHANGED <<raw_schema, endpoints, endpoint_gen, cursor, run, started,
                   prev, mapper_vars, path_vars, name_vars, analysis_vars,
                   import_vars, client_vars>>

ModelsNext == Parse \/ GenerateModelsOnly
ModelsSpec == ModelsInit /\ [][ModelsNext]_vars

\* the (node, verb) pairs of the tree whose method has a parameter, and those
\* whose method declares a return of a type other than null
WithParameters ==
    {p \in (DOMAIN AllNodes) \X (1..4) :
       /\ p[2] \in DOMAIN AllNodes[p[1]].methods
       /\ AllNodes[p[1]].methods[p[2]].value.parameters # <<>>}
WithReturn ==
    {p \in (DOMAIN AllNodes) \X (1..4) :
       /\ p[2] \in DOMAIN AllNodes[p[1]].methods
       /\ ~IsNone(AllNodes[p[1]].methods[p[2]].value.returns)
       /\ Val(AllNodes[p[1]].methods[p[2]].value.returns).type # "null"}

\* the docstring that ties a model to its node and verb
DocOf(kind, p) ==
    kind \o " model for " \o Str(AllNodes[p[1]].path) \o " "
    \o Str(Upper(AllNodes[p[1]].methods[p[2]].key))

\* the positions of the emitted models, file by file
Emitted ==
    {q \in (1..(4 * Len(AllNodes))) \X (1..(8 * Len(AllNodes))) :
       /\ q[1] \in DOMAIN Val(model_out).files
       /\ q[2] \in DOMAIN Val(model_out).files[q[1]].models}
ModelAt(q) == Val(model_out).files[q[1]].models[q[2]]

\* the name a field has on the wire
WireName(field) ==
    IF field.original_name # None THEN Val(field.original_name) ELSE field.name

\* C20: generate_models emits, for each (node, verb) of the tree, a request
\* model exactly when the method has at least one parameter, with one field
\* per parameter in declaration order, and a response model exactly when the
\* method declares a return whose type is not null, with a single field; no
\* other models are emitted.
C20_ModelsEmitted ==
    pc = "generated" =>
        /\ \A p \in WithParameters :
              Cardinality({q \in Emitted : ModelAt(q).docstring = DocOf("Request", p)})
              = Cardinality({r \in WithParameters :
                               DocOf("Request", r) = DocOf("Request", p)})
        /\ \A p \in WithReturn :
              Cardinality({q \in Emitted : ModelAt(q).docstring = DocOf("Response", p)})
              = Cardinality({r \in WithReturn :
                               DocOf("Response", r) = DocOf("Response", p)})
        /\ \A q \in Emitted :
              \/ \E p \in WithParameters :
                    /\ ModelAt(q).docstring = DocOf("Request", p)
                    /\ [j \in DOMAIN ModelAt(q).fields |->
                          WireName(ModelAt(q).fields[j])]
                       = [j \in DOMAIN AllNodes[p[1]].methods[p[2]].value.parameters |->
                            AllNodes[p[1]].methods[p[2]].value.parameters[j].name]
              \/ \E p \in WithReturn :
                    /\ ModelAt(q).docstring = DocOf("Response", p)
                    /\ Len(ModelAt(q).fields) = 1

\* /nodes with GET and POST and a child with GET: a response model for the
\* array of GET, a request model of two fields for POST and none for its null
\* return, and the models of the child
C20_Witness ==
    /\ pc = "generated"
    /\ Cardinality(WithParameters) >= 2
    /\ Cardinality(WithReturn) >= 2
    /\ Cardinality(Emitted) = Cardinality(WithParameters) + Cardinality(WithReturn)
    /\ \E p \in WithParameters : p \notin WithReturn
    /\ \E p \in WithParameters : p[1] > 1
    /\ \E q \in Emitted : Len(ModelAt(q).fields) = 2

(***************************************************************************)
(* SchemaAnalyzer._detect_edge_cases (analyze_schema.py, 204-252), run on  *)
(* the parsed tree as step 3 of the pipeline.                              *)
(***************************************************************************)
HighParameterCount == 20
UsualParameterTypes == {"string", "integer", "boolean", "array", "object"}
KnownFormats == {"pve-node", "pve-vmid", "pve-storage-id", "email", "uuid"}

\* the findings of one parameter: its type, then its format
CheckParameter(endpoint, method_name, param) ==
    (IF param.type \notin UsualParameterTypes
     THEN <<"Unusual parameter type '" \o param.type \o "' in "
            \o Str(endpoint.path) \o " " \o Str(method_name)>>
     ELSE <<>>)
    \o (IF ~IsNone(param.format) /\ Val(param.format).str # <<>>
           /\ Str(Val(param.format).str) \notin KnownFormats
        THEN <<"Unknown format '" \o Str(Val(param.format).str) \o "' in "
               \o Str(endpoint.path) \o " " \o Str(method_name)>>
        ELSE <<>>)

\* the findings of one method: the parameter count, then each parameter
CheckMethod(endpoint, entry) ==
    (IF Len(entry.value.parameters) > HighParameterCount
     THEN <<"High parameter count (" \o IntToStr(Len(entry.value.parameters))
            \o ") in " \o Str(endpoint.path) \o " " \o Str(entry.key)>>
     ELSE <<>>)
    \o Concat([i \in DOMAIN entry.value.parameters |->
                 CheckParameter(endpoint, entry.key, entry.value.parameters[i])])

\* check_endpoint: the path, the methods, then the children
RECURSIVE check_endpoint(_)
check_endpoint(endpoint) ==
    (IF Contains(endpoint.path, "[") /\ Contains(endpoint.path, "]")
     THEN <<"Dynamic parameter pattern in " \o Str(endpoint.path)>>
     ELSE <<>>)
    \o Concat([i \in DOMAIN endpoint.methods |->
                 CheckMethod(endpoint, endpoint.methods[i])])
    \o Concat([i \in DOMAIN endpoint.children |->
                 check_endpoint(endpoint.children[i])])

\* _detect_edge_cases
detect_edge_cases(list) ==
    Concat([i \in DOMAIN list |-> check_endpoint(list[i])])

\* parameters of every documented type and of an unknown one, with no format,
\* a format of the analyzer's list and one outside it
s_link_n == <<"l","i","n","k","[","n","]">>
AnalysisTypes == DocumentedRawTypes \cup {"pve-custom"}
AnalysisProperties ==
    {<<s_id, [type |-> t]>> : t \in AnalysisTypes}
    \cup {<<s_name, [type |-> t, format |-> StrV(f)]>> :
            t \in {"string", "number"},
            f \in {s_pve_node, <<"i","p","v","4">>}}
    \cup {<<s_name, [description |-> "Test name"]>>}
AnalysisPropertyLists ==
    {<<>>} \cup {<<p>> : p \in AnalysisProperties}
    \cup {l \in AnalysisProperties \X AnalysisProperties : l[1][1] # l[2][1]}
    \cup {[i \in 1..(HighParameterCount + 1) |->
             <<[k \in 1..i |-> "p"], [type |-> "string"]>>]}

\* /test with a GET of the parameters, alone or above /test/link[n] with a POST
AnalysisSchemas ==
    {<<RawNode(<<>>, s_test,
               << <<s_GET, MethodInfo(<<>>, Some(l), None)>> >>, <<>>)>> :
       l \in AnalysisPropertyLists}
    \cup {<<RawNode(<<>>, s_test, <<>>,
                    <<RawNode(s_slash \o s_test, s_link_n,
                              << <<s_POST, MethodInfo(<<>>, Some(<<p>>), None)>> >>,
                              <<>>)>>)>> :
            p \in AnalysisProperties}

AnalysisInit ==
    /\ IdleMapper
    /\ IdlePaths
    /\ IdleNames
    /\ IdleAnalysis
    /\ IdleImports
    /\ IdleClient
    /\ pc = "start"
    /\ raw_schema \in AnalysisSchemas
    /\ endpoints = <<>>
    /\ model_gen = NewModelGenerator(NoModels)
    /\ endpoint_gen = NewEndpointGenerator
    /\ model_out = None
    /\ cursor = 0
    /\ run = 1
    /\ started = "fresh"
    /\ prev = None

\* Step 3: self.analyzer.analyze(endpoints), the edge cases of the analysis
Analyze ==
    /\ pc = "parsed"
    /\ edge_cases = None
    /\ edge_cases' = Some(detect_edge_cases(endpoints))
    /\ pc' = "analyzed"
    /\ UNCHANGED <<pipeline_vars, mapper_vars, path_vars, name_vars, import_vars, client_vars>>

\* Parse leaves the analysis alone
AnalysisNext == Parse \/ Analyze
AnalysisSpec == AnalysisInit /\ [][AnalysisNext]_vars

\* the finding of an unsupported type for a parameter of a method of a node
TypeFinding(endpoint, method_name, param) ==
    "Unusual parameter type '" \o param.type \o "' in " \o Str(endpoint.path)
    \o " " \o Str(method_name)

\* C22: the analyzer records an unsupported-type finding for a parameter if
\* and only if its type is none of string, integer, number, boolean, object,
\* array and null.
C22_UnsupportedTypeFinding ==
    edge_cases # None =>
        \A i \in DOMAIN AllNodes : \A k \in DOMAIN AllNodes[i].methods :
           \A n \in DOMAIN AllNodes[i].methods[k].value.parameters :
              TypeFinding(AllNodes[i], AllNodes[i].methods[k].key,
                          AllNodes[i].methods[k].value.parameters[n])
                 \in Range(Val(edge_cases))
              <=> AllNodes[i].methods[k].value.parameters[n].type
                     \notin DocumentedRawTypes

(***************************************************************************)
(* Claims about the order of the passes of generate_endpoints.             *)
(***************************************************************************)
\* C24: once the second pass of generate_endpoints has begun, no entry of the
\* path -> class-name table is created or changed and no counter of a base
\* name changes: every class name was assigned in the allocation pass.
C24_NamesFixedBeforeClasses ==
    [][pc = "pass2" =>
         /\ endpoint_gen'.endpoint_class_names = endpoint_gen.endpoint_class_names
         /\ endpoint_gen'.class_counter = endpoint_gen.class_counter]_vars

(***************************************************************************)
(* _calculate_relative_import on its own: the from-file and the to-file    *)
(* are the file paths of two nodes of at most MaxImportSegments segments.  *)
(***************************************************************************)
MaxImportSegments == 3
ImportSegments == {s_access, s_nodes, s_node_param, s_qemu}
ImportSegmentLists ==
    UNION {[1..n -> ImportSegments] : n \in 1..MaxImportSegments}
ImportFiles ==
    {get_file_path(EndpointAt(segments)) : segments \in ImportSegmentLists}
    \cup {s_access \o s_py, s_access \o s_slash \o <<"u","s","e","r","s">> \o s_py}

ImportInit ==
    /\ IdlePipeline
    /\ IdleMapper
    /\ IdlePaths
    /\ IdleNames
    /\ IdleAnalysis
    /\ IdleClient
    /\ ri_paths \in {Some(<<from_path, to_path>>) :
                       from_path \in ImportFiles, to_path \in ImportFiles}
    /\ ri_result = None

\* EndpointGenerator._calculate_relative_import(from_path, to_path)
CalculateRelativeImport ==
    /\ ri_paths # None
    /\ ri_result = None
    /\ ri_result' = Some(calculate_relative_import(Val(ri_paths)[1],
                                                   Val(ri_paths)[2]))
    /\ UNCHANGED <<pc, pipeline_vars, mapper_vars, path_vars, name_vars,
                   analysis_vars, ri_paths, client_vars>>

ImportNext == CalculateRelativeImport
ImportSpec == ImportInit /\ [][ImportNext]_vars

\* the segments of a file path without its extension
FileParts(file_path) ==
    Split(SubSeq(file_path, 1, Len(file_path) - Len(s_py)), "/")

\* the directory of the from-file and the length of what it shares with the
\* to-file from the start
FromDir == SubSeq(FileParts(Val(ri_paths)[1]), 1,
                  Len(FileParts(Val(ri_paths)[1])) - 1)
Shared ==
    Cardinality({n \in 1..Len(FromDir) :
                   /\ n <= Len(FileParts(Val(ri_paths)[2]))
                   /\ \A i \in 1..n : FromDir[i] = FileParts(Val(ri_paths)[2])[i]})

\* C26: the relative import is one dot for the package of the from-file, one
\* more dot per directory level to climb, then the remaining segments of the
\* target joined by dots; from access.py to access/users.py it is
\* .access.users and from nodes/node_item/_item.py to
\* nodes/node_item/qemu/_item.py it is .qemu._item.
C26_RelativeImport ==
    ri_result # None =>
        /\ Val(ri_result)
           = [i \in 1..(Len(FromDir) - Shared + 1) |-> "."]
             \o Join(SubSeq(FileParts(Val(ri_paths)[2]), Shared + 1,
                            Len(FileParts(Val(ri_paths)[2]))), <<".">>)
        /\ (Str(Val(ri_paths)[1]) = "access.py"
            /\ Str(Val(ri_paths)[2]) = "access/users.py")
           => Str(Val(ri_result)) = ".access.users"
        /\ (Str(Val(ri_paths)[1]) = "nodes/node_item/_item.py"
            /\ Str(Val(ri_paths)[2]) = "nodes/node_item/qemu/_item.py")
           => Str(Val(ri_result)) = ".qemu._item"

(***************************************************************************)
(* Claims about the import paths of the generated classes, checked under   *)
(* Spec.                                                                   *)
(***************************************************************************)
\* the module a relative import names when it is read in holder_file: the
\* package of the file, one level up for every dot after the first, then the
\* dotted segments; <<>> when it climbs above the top
LeadingDots(import_path) == Len(import_path) - Len(LStrip(import_path, {"."}))
Resolve(holder_file, import_path) ==
    Bind(SubSeq(FileParts(holder_file), 1, Len(FileParts(holder_file)) - 1),
         LAMBDA package :
      IF LeadingDots(import_path) = 0
         \/ LeadingDots(import_path) - 1 > Len(package)
      THEN <<>>
      ELSE SubSeq(package, 1, Len(package) - (LeadingDots(import_path) - 1))
           \o Split(LStrip(import_path, {"."}), "."))

\* the files whose classes are classes of a node
HoldersOf(endpoint) ==
    {f \in DOMAIN endpoint_gen.endpoint_files :
       \E k \in DOMAIN endpoint_gen.endpoint_files[f].classes :
          endpoint_gen.endpoint_files[f].classes[k] \in ClassesOf(endpoint)}

\* the imports of the class of a node held in a file resolve to the files of
\* the children they are for
ImportsResolve(endpoint, holder_file, c) ==
    /\ \A n \in DOMAIN c.properties : \A i \in DOMAIN endpoint.children :
          endpoint.children[i].text = c.properties[n].path =>
             Resolve(holder_file, c.properties[n].import_path)
             = FileParts(get_file_path(endpoint.children[i]))
    /\ c.call_method # None =>
          Resolve(holder_file, Val(c.call_method).import_path)
          = FileParts(get_file_path(ParameterizedChildren(endpoint)[1]))

\* C27: every import path stored on a property or on a callable accessor,
\* resolved relative to the package of the file that holds the class, names
\* the file that the file-path function assigns to the target child.
C27_ImportPaths ==
    pc = "done" =>
        \A i \in DOMAIN AllNodes : \A f \in HoldersOf(AllNodes[i]) :
           \A k \in DOMAIN endpoint_gen.endpoint_files[f].classes :
              endpoint_gen.endpoint_files[f].classes[k] \in ClassesOf(AllNodes[i])
              => ImportsResolve(AllNodes[i],
                                endpoint_gen.endpoint_files[f].file_path,
                                endpoint_gen.endpoint_files[f].classes[k])

(***************************************************************************)
(* ClientGenerator (client_generator.py): after generate_endpoints the     *)
(* client generator collects the module and the class it imports for each  *)
(* top-level node.                                                         *)
(***************************************************************************)
ClientNodes == 2

\* _generate_root_class_name
generate_root_class_name(root_name) ==
    Str(Capitalize(ReplaceChar(root_name, "-", "_"))) \o "Endpoints"

\* _collect_root_endpoints
RECURSIVE collect_root_endpoints(_)
collect_root_endpoints(list) ==
    IF list = <<>> THEN <<>>
    ELSE Bind(Split(Strip(Head(list).path, {"/"}), "/"), LAMBDA path_parts :
           (IF path_parts # <<>> /\ path_parts[1] # <<>>
            THEN <<[name |-> ReplaceChar(path_parts[1], "-", "_"),
                    class_name |-> generate_root_class_name(path_parts[1]),
                    module |-> ReplaceChar(path_parts[1], "-", "_")]>>
            ELSE <<>>)
           \o collect_root_endpoints(Tail(list)))

ClientInit ==
    /\ IdleMapper
    /\ IdlePaths
    /\ IdleNames
    /\ IdleAnalysis
    /\ IdleImports
    /\ root_endpoints = None
    /\ pc = "start"
    /\ raw_schema \in RawSchemas(ClientNodes)
    /\ endpoints = <<>>
    /\ model_gen = NewModelGenerator(NoModels)
    /\ endpoint_gen = NewEndpointGenerator
    /\ model_out = None
    /\ cursor = 0
    /\ run = 1
    /\ started = "fresh"
    /\ prev = None

\* Step 6: self.client_gen.generate(endpoints), up to the template
GenerateClient ==
    /\ pc = "done"
    /\ root_endpoints = None
    /\ root_endpoints' = Some(collect_root_endpoints(endpoints))
    /\ pc' = "client"
    /\ UNCHANGED <<pipeline_vars, mapper_vars, path_vars, name_vars,
                   analysis_vars, import_vars>>

ClientNext ==
    \/ Parse
    \/ GenerateModels
    \/ CollectAllEndpoints
    \/ ProcessEndpoint
    \/ CreateRootEndpointClasses
    \/ GenerateClient
ClientSpec == ClientInit /\ [][ClientNext]_vars

\* the package of a module imported from prmxctrl.endpoints holds a class
PackageHolds(module, class_name) ==
    \E f \in DOMAIN endpoint_gen.endpoint_files :
       /\ endpoint_gen.endpoint_files[f].file_path
          = module \o <<"/","_","_","i","n","i","t","_","_">> \o s_py
       /\ \E k \in DOMAIN endpoint_gen.endpoint_files[f].classes :
             endpoint_gen.endpoint_files[f].classes[k].name = class_name

\* the client imports the root class by the name the endpoint generator gave it
RootClassNamesAgree ==
    \A i \in DOMAIN Val(root_endpoints) :
       \E c \in AllClasses : c.name = Val(root_endpoints)[i].class_name

\* C30: for every top-level node the class name and the module the client
\* imports are the name of the root class built by the endpoint generator
\* and the package of the file in which that class is emitted.
C30_ClientImports ==
    pc = "client" =>
        \A i \in DOMAIN Val(root_endpoints) :
           PackageHolds(Val(root_endpoints)[i].module,
                        Val(root_endpoints)[i].class_name)

=============================================================================
